---- MODULE Spec2Model ----
(***************************************************************************)
(* The Controller of traycer-mini: the message handler that the            *)
(* generatePlan command registers on its webview panel                     *)
(* (panel.webview.onDidReceiveMessage), the PlanState it mutates, the      *)
(* refine calls it starts on rejectStep and the messages it posts back.    *)
(*                                                                         *)
(* A PlanStep is a JavaScript object; planState.steps is an array of       *)
(* references to such objects.  generateStepId gives every object its own  *)
(* id, which is never assigned again, so an object is named by its id:     *)
(* planState.steps is a sequence of ids and heap maps each id to the       *)
(* fields of its object.  An array that holds the same object twice is a   *)
(* sequence that holds the same id twice.                                  *)
(***************************************************************************)
EXTENDS Integers, Sequences, FiniteSets, TLC

VARIABLES
    planState,  \* [steps, taskDescription, lastModified]: the closure variable planState
    heap,       \* id -> [content, status, originalIndex]: the PlanStep objects ever created
    nextId,     \* number of step ids generated so far
    inflight,   \* id -> number of refineStep calls awaiting the generator for that step
    message,    \* the event handled last: a PlanMessage (a reorderSteps one without
                \* its list), or the generator's answer to a refineStep call
    posted,     \* what that handler passed to panel.webview.postMessage, in order
    intents,    \* number of PlanMessages handled
    repeated,   \* history: some reorderSteps message handled so far listed an id twice
    webview,    \* the panel and the page in it: the script's planState (the
                \* mirror), the cards, the progress line, the number of gestures
    channel     \* the messages posted and not yet received, each way, in order

vars == <<planState, heap, nextId, inflight, message, posted, intents, repeated,
          webview, channel>>

\* The Presentation side, which the message handler neither reads nor writes
view == <<webview, channel>>

----------------------------------------------------------------------------
(* Bounds and input sets *)

\* PlanMessages handled in one behaviour.
MaxIntents == 3

\* Longest newOrder list of a reorderSteps message.
MaxOrderLen == 2

\* Most pieces (PlanTokens) a generated plan text is made of in ParseSpec.
MaxPlanTokens == 5

\* At most MaxGestures gestures of the user in ViewSpec.
MaxGestures == 2

\* A step content is kept only if it is longer than this:
\* if (stepContent.length > 20).
MinContentLength == 20

\* Results of parsePlanIntoSteps the session may start from (never empty:
\* the command returns before creating planState when rawSteps is empty).
RawPlans == { <<"plan text 1">>, <<"plan text 1", "plan text 2">> }

\* The parsed steps of the three-step plan ReorderSpec starts from.
ThreeStepPlan == << "plan text 1", "plan text 2", "plan text 3" >>

\* Texts an editStep or addStep message may carry.
Texts == { "plan text 1", "New plan step." }

\* The task typed into the input box.
Task == "Add user authentication"

\* An id no step ever has, and the afterId of an addStep at the end.
UnknownId == "no-such-id"
Null == "null"

\* What the generator's answer is turned into by refineStep.
RefinedText == "alternative approach"
FallbackText == "Failed to refine step."
ErrorText == "Error generating alternative: request failed"

Unset == "unset"

----------------------------------------------------------------------------
(* Helpers *)

generateStepId(n) == "uuid-" \o ToString(n)

AllocatedIds == { generateStepId(n) : n \in 1..nextId }

Range(s) == { s[k] : k \in 1..Len(s) }

IsDuplicateFree(s) == \A j, k \in 1..Len(s) : s[j] = s[k] => j = k

\* steps.find(s => s.id === id) succeeds
validateStepOperation(id, steps) == \E k \in 1..Len(steps) : steps[k] = id

\* steps.findIndex(s => s.id === id), 1-based; 0 when there is none
findIndex(steps, id) ==
    IF validateStepOperation(id, steps)
    THEN CHOOSE k \in 1..Len(steps) :
            /\ steps[k] = id
            /\ \A j \in 1..(k - 1) : steps[j] # id
    ELSE 0

\* The positions of s that hold an element of S.
Positions(s, S) == { k \in 1..Len(s) : s[k] \in S }

\* The j-th smallest element of a set P of numbers.
Nth(P, j) == CHOOSE k \in P : Cardinality({ i \in P : i <= k }) = j

\* s without its elements outside S: the elements of S, as often and in the
\* order in which they occur in s.
Restrict(s, S) ==
    [ j \in 1..Cardinality(Positions(s, S)) |-> s[Nth(Positions(s, S), j)] ]

\* Faulty variant of updateStepIndices: the indices are left as they were.
updateStepIndices_Stale(steps, h) == h

\* steps.forEach((step, index) => step.originalIndex = index + 1): an object
\* that occurs more than once keeps the index written last.
updateStepIndices(steps, h) ==
    [ id \in DOMAIN h |->
        IF validateStepOperation(id, steps)
        THEN [ h[id] EXCEPT !.originalIndex =
                 CHOOSE k \in 1..Len(steps) :
                    /\ steps[k] = id
                    /\ \A j \in (k + 1)..Len(steps) : steps[j] # id ]
        ELSE h[id] ]

\* new Date(): a timestamp later than the one it replaces
NewDate(t) == t + 1

\* The state as postMessage serialises it: the objects' fields, by value.
Serialize(ps, h) ==
    [ steps |-> [ k \in 1..Len(ps.steps) |->
                    [ id |-> ps.steps[k],
                      content |-> h[ps.steps[k]].content,
                      status |-> h[ps.steps[k]].status,
                      originalIndex |-> h[ps.steps[k]].originalIndex ] ],
      taskDescription |-> ps.taskDescription,
      lastModified |-> ps.lastModified ]

StateUpdated(ps, h) == [ command |-> "stateUpdated", state |-> Serialize(ps, h) ]

UpdateStepStatus(id) == [ command |-> "updateStepStatus", id |-> id, status |-> "refining" ]

----------------------------------------------------------------------------
(* parsePlanIntoSteps.  A text is a string; the two regular expressions    *)
(* are matched character by character.                                     *)

\* The character at position i of the string t
CharAt(t, i) == SubSeq(t, i, i)

\* \s, as far as it occurs in the texts
Whitespace == { " ", "\n" }

\* \d
Digits == { "0", "1", "2", "3", "4", "5", "6", "7", "8", "9" }

\* The end of the longest run of characters of S that starts at position i
\* of t: the first position from i on that holds no character of S
\* (Len(t) + 1 when there is none).
RunEnd(t, i, S) ==
    CHOOSE k \in i..(Len(t) + 1) :
        /\ \A j \in i..(k - 1) : CharAt(t, j) \in S
        /\ k = Len(t) + 1 \/ CharAt(t, k) \notin S

\* /Step\s+\d+:/i matched at position i of t: the position after the match,
\* 0 when there is no match.  Whitespace, digits and the colon exclude each
\* other, so the greedy runs are the only way to match.
MatchLabel(t, i) ==
    IF /\ i >= 1
       /\ i + 3 <= Len(t)
       /\ CharAt(t, i) \in { "S", "s" }
       /\ CharAt(t, i + 1) \in { "T", "t" }
       /\ CharAt(t, i + 2) \in { "E", "e" }
       /\ CharAt(t, i + 3) \in { "P", "p" }
    THEN LET afterSpace == RunEnd(t, i + 4, Whitespace)
             afterDigits == RunEnd(t, afterSpace, Digits)
         IN IF /\ afterSpace > i + 4
               /\ afterDigits > afterSpace
               /\ afterDigits <= Len(t)
               /\ CharAt(t, afterDigits) = ":"
            THEN afterDigits + 1
            ELSE 0
    ELSE 0

\* String.prototype.trim
Trim(t) ==
    LET inner == { k \in 1..Len(t) : CharAt(t, k) \notin Whitespace }
    IN IF inner = {}
       THEN ""
       ELSE SubSeq(t, Nth(inner, 1), Nth(inner, Cardinality(inner)))

\* plan.split(/(?=Step\s+\d+:)/i): the text is cut in front of every match
\* of the lookahead, except one at the start of the text (an empty match at
\* the start of a section does not split).
Split(plan) ==
    LET starts == { 1 } \cup { i \in 2..Len(plan) : MatchLabel(plan, i) # 0 }
        n == Cardinality(starts)
    IN [ j \in 1..n |->
           SubSeq(plan, Nth(starts, j),
                  IF j < n THEN Nth(starts, j + 1) - 1 ELSE Len(plan)) ]

\* The body of the loop up to the length test: the trimmed first group of
\* trimmedSection.match(/^Step\s+\d+:\s*(.*)/is), and the empty text when
\* the section is blank, does not match, or the group is empty.
StepContent(section) ==
    LET trimmedSection == Trim(section)
        afterLabel == MatchLabel(trimmedSection, 1)
    IN IF Len(trimmedSection) = 0 \/ afterLabel = 0
       THEN ""
       ELSE Trim(SubSeq(trimmedSection,
                        RunEnd(trimmedSection, afterLabel, Whitespace),
                        Len(trimmedSection)))

\* Faulty variant of parsePlanIntoSteps: a content of exactly
\* MinContentLength characters is kept.
parsePlanIntoSteps_KeepsShortest(plan) ==
    LET stepSections == Split(plan)
        contents == [ j \in 1..Len(stepSections) |-> StepContent(stepSections[j]) ]
    IN SelectSeq(contents, LAMBDA stepContent : Len(stepContent) >= MinContentLength)

parsePlanIntoSteps(plan) ==
    LET stepSections == Split(plan)
        contents == [ j \in 1..Len(stepSections) |-> StepContent(stepSections[j]) ]
    IN SelectSeq(contents, LAMBDA stepContent : Len(stepContent) > MinContentLength)

\* The pieces the generated texts of ParseSpec are made of: two labels (the
\* second in other case, with a line break and two digits), a text that
\* lacks the space of a label, a word of MinContentLength characters, a
\* word of one character and a space.
LabelOne == "Step 1:"
LabelTwo == "sTEP \n23:"
NoLabel == "Step1:"
LongWord == CHOOSE w \in { "xxxxxxxxxxxxxxxxxxxx" } : Len(w) = MinContentLength
ShortWord == "y"
Space == " "

PlanTokens == { LabelOne, LabelTwo, NoLabel, LongWord, ShortWord, Space }

RECURSIVE Flatten(_)
\* The text made of the pieces ts, in order.
Flatten(ts) == IF ts = <<>> THEN "" ELSE Head(ts) \o Flatten(Tail(ts))

----------------------------------------------------------------------------
(* cleanMarkdown and the two readings of a card's markup.  The texts of    *)
(* the steps are strings; the replacements are made character by           *)
(* character.  The texts hold no <, > or &, so that the only markup in a   *)
(* card is the markup cleanMarkdown writes.                                *)

\* pat occurs in t at position i
StartsWith(t, i, pat) ==
    /\ i >= 1
    /\ i + Len(pat) - 1 <= Len(t)
    /\ SubSeq(t, i, i + Len(pat) - 1) = pat

\* Where the lazy group (.*?) of /mark(.*?)mark/ ends: the first position
\* from i on that holds mark and is on the same line as i (. matches no
\* line break), 0 when there is none.
Closing(t, mark, i) ==
    LET ends == { j \in i..Len(t) :
                    /\ StartsWith(t, j, mark)
                    /\ \A k \in i..(j - 1) : CharAt(t, k) # "\n" }
    IN IF ends = {} THEN 0 ELSE Nth(ends, 1)

RECURSIVE ReplaceSpans(_, _, _, _, _)
\* t.replace(/mark(.*?)mark/g, open + '$1' + close), from position i on
ReplaceSpans(t, i, mark, open, close) ==
    IF i > Len(t)
    THEN ""
    ELSE LET j == IF StartsWith(t, i, mark)
                  THEN Closing(t, mark, i + Len(mark))
                  ELSE 0
         IN IF j # 0
            THEN open \o SubSeq(t, i + Len(mark), j - 1) \o close
                      \o ReplaceSpans(t, j + Len(mark), mark, open, close)
            ELSE CharAt(t, i) \o ReplaceSpans(t, i + 1, mark, open, close)

\* U+2022, the bullet cleanMarkdown writes, and the backtick, neither of
\* which a TLA+ string can hold: the texts of the model hold an @ and a ~
\* in their place and in no other.
Bullet == "@"
Backtick == "~"

RECURSIVE ReplaceBullets(_, _)
\* t.replace(/^- (.*$)/gim, '• $1'), from position i on
ReplaceBullets(t, i) ==
    IF i > Len(t)
    THEN ""
    ELSE IF (i = 1 \/ CharAt(t, i - 1) = "\n") /\ StartsWith(t, i, "- ")
         THEN Bullet \o " " \o ReplaceBullets(t, i + 2)
         ELSE CharAt(t, i) \o ReplaceBullets(t, i + 1)

\* The end of the run of # that starts at position i of t
HashRunEnd(t, i) ==
    CHOOSE k \in i..(Len(t) + 1) :
        /\ \A j \in i..(k - 1) : CharAt(t, j) = "#"
        /\ k = Len(t) + 1 \/ CharAt(t, k) # "#"

RECURSIVE StripHeadings(_, _)
\* t.replace(/#{1,6}\s/g, ''), from position i on: a run of more than six
\* # does not match at its start
StripHeadings(t, i) ==
    IF i > Len(t)
    THEN ""
    ELSE LET end == HashRunEnd(t, i)
         IN IF /\ end > i
               /\ end - i <= 6
               /\ end <= Len(t)
               /\ CharAt(t, end) \in Whitespace
            THEN StripHeadings(t, end + 1)
            ELSE CharAt(t, i) \o StripHeadings(t, i + 1)

RECURSIVE ReplaceBreaks(_, _)
\* t.replace(/\n/g, '<br>'), from position i on
ReplaceBreaks(t, i) ==
    IF i > Len(t)
    THEN ""
    ELSE (IF CharAt(t, i) = "\n" THEN "<br>" ELSE CharAt(t, i))
            \o ReplaceBreaks(t, i + 1)

\* The six replacements, in the order the code makes them.
cleanMarkdown(text) ==
    LET bold == ReplaceSpans(text, 1, "**", "<strong>", "</strong>")
        italic == ReplaceSpans(bold, 1, "*", "<em>", "</em>")
        code == ReplaceSpans(italic, 1, Backtick, "<code>", "</code>")
        bullets == ReplaceBullets(code, 1)
        headings == StripHeadings(bullets, 1)
    IN ReplaceBreaks(headings, 1)

\* The tags cleanMarkdown writes
Tags == { "<strong>", "</strong>", "<em>", "</em>", "<code>", "</code>", "<br>" }

RECURSIVE Decode(_, _, _)
\* The text of the markup html from position i on: the tags are left out,
\* a <br> is read as br.
Decode(html, i, br) ==
    IF i > Len(html)
    THEN ""
    ELSE IF \E tag \in Tags : StartsWith(html, i, tag)
         THEN LET tag == CHOOSE g \in Tags : StartsWith(html, i, g)
              IN (IF tag = "<br>" THEN br ELSE "")
                    \o Decode(html, i + Len(tag), br)
         ELSE CharAt(html, i) \o Decode(html, i + 1, br)

\* Node.textContent of an element whose innerHTML is html: a <br> has no text
textContent(html) == Decode(html, 1, "")

\* cleanHtmlForContenteditable: strong, em and code are replaced by their
\* text and a br by a line break, then the text of the body is taken.
cleanHtmlForContenteditable(html) == Decode(html, 1, "\n")

----------------------------------------------------------------------------
(* The page: webview.js and the cards of createEditableStepCard.  A card   *)
(* is the record of what the page reads from its element; a step of the    *)
(* mirror is a record of the state a message carried.  The markup of a     *)
(* card's content is kept as the text it was made from: it is either       *)
(* cleanMarkdown of a text, or a text the user typed.                      *)

\* The markup that is cleanMarkdown(text), and the markup of a typed text
Rendered(text) == [ rendered |-> TRUE, text |-> text ]
Typed(text) == [ rendered |-> FALSE, text |-> text ]

\* contentDiv.innerHTML
innerHTML(card) ==
    IF card.content.rendered THEN cleanMarkdown(card.content.text) ELSE card.content.text

\* createEditableStepCard(step): the card of a step, not yet in edit mode
\* and with no listeners on its controls
createEditableStepCard(step) ==
    [ id |-> step.id,
      number |-> step.originalIndex,
      status |-> step.status,
      acceptDisabled |-> step.status = "accepted",
      rejectDisabled |-> step.status \in { "rejected", "refining" },
      content |-> Rendered(step.content),
      contentEditable |-> FALSE,
      originalContent |-> Unset,
      listeners |-> 0 ]

\* setupCardEventListeners(cardElement): one more listener on every control
setupCardEventListeners(card) == [ card EXCEPT !.listeners = @ + 1 ]

\* document.querySelector('.step-card[data-id="id"]'): the position of the
\* first card with that id, 0 when there is none
CardOf(cards, id) ==
    IF \E k \in 1..Len(cards) : cards[k].id = id
    THEN CHOOSE k \in 1..Len(cards) :
            /\ cards[k].id = id
            /\ \A j \in 1..(k - 1) : cards[j].id # id
    ELSE 0

\* planState.steps.findIndex(s => s.id === id) on the mirror, counted from 1
MirrorIndex(steps, id) ==
    IF \E k \in 1..Len(steps) : steps[k].id = id
    THEN CHOOSE k \in 1..Len(steps) :
            /\ steps[k].id = id
            /\ \A j \in 1..(k - 1) : steps[j].id # id
    ELSE 0

\* Math.round((acceptedCount / totalCount) * 100) for counts a <= t, 0 < t
RoundPercent(a, t) == (200 * a + t) \div (2 * t)

\* Faulty variant of updateProgressDisplay: the ratio is taken of the steps
\* that are not accepted.
updateProgressDisplay_CountsOpen(state) ==
    LET acceptedCount == Cardinality({ k \in 1..Len(state.steps) :
                                         state.steps[k].status # "accepted" })
        totalCount == Len(state.steps)
    IN [ accepted |-> acceptedCount,
         total |-> totalCount,
         percent |-> IF totalCount > 0 THEN RoundPercent(acceptedCount, totalCount) ELSE 0 ]

\* updateProgressDisplay: what the progress line and the bar show for the
\* mirror
updateProgressDisplay(state) ==
    LET acceptedCount == Cardinality({ k \in 1..Len(state.steps) :
                                         state.steps[k].status = "accepted" })
        totalCount == Len(state.steps)
    IN [ accepted |-> acceptedCount,
         total |-> totalCount,
         percent |-> IF totalCount > 0 THEN RoundPercent(acceptedCount, totalCount) ELSE 0 ]

\* updateButtonStates: for each step of the mirror, the first card with its
\* id gets its accept and reject buttons set from the step's status
updateButtonStates(cards, state) ==
    [ k \in 1..Len(cards) |->
        LET at == MirrorIndex(state.steps, cards[k].id)
        IN IF at # 0 /\ CardOf(cards, cards[k].id) = k
           THEN [ cards[k] EXCEPT
                    !.acceptDisabled = state.steps[at].status = "accepted",
                    !.rejectDisabled = state.steps[at].status \in { "rejected", "refining" } ]
           ELSE cards[k] ]

\* No panel: the page's variables as the script declares them
NoPanel ==
    [ open |-> FALSE,
      listening |-> FALSE,
      planState |-> [ steps |-> <<>> ],
      cards |-> <<>>,
      progress |-> [ accepted |-> 0, total |-> 0, percent |-> 0 ],
      draggedItem |-> Null,
      gestures |-> 0 ]

\* The panel as the generatePlan command opens it and the page once its
\* script has run: createWebviewPanel, the html of getAdvancedWebviewContent
\* (a card per step and window.planState, the state by value),
\* onDidReceiveMessage, then the script, which takes window.planState as its
\* mirror and calls setupCardEventListeners for every card at two places.
LoadWebview(ps, h) ==
    LET state == Serialize(ps, h)
        stepCards == [ k \in 1..Len(state.steps) |->
                         setupCardEventListeners(setupCardEventListeners(
                            createEditableStepCard(state.steps[k]))) ]
    IN [ NoPanel EXCEPT
           !.open = TRUE,
           !.listening = TRUE,
           !.planState = state,
           !.cards = updateButtonStates(stepCards, state),
           !.progress = updateProgressDisplay(state) ]

\* Nothing in transit
NoMessages == [ toExtension |-> <<>>, toWebview |-> <<>> ]

\* planState before the command declares it: there is no such object
NoPlanState == << >>

----------------------------------------------------------------------------
(* Initial state: planState as the generatePlan command creates it *)

\* planState as created from the parsed steps: { taskDescription: task,
\* lastModified: new Date(), steps: rawSteps.map(...) }
CreatePlanState(rawSteps) ==
    [ steps |-> [ k \in 1..Len(rawSteps) |-> generateStepId(k) ],
      taskDescription |-> Task,
      lastModified |-> 0 ]

\* The step objects rawSteps.map creates: { id: generateStepId(), content,
\* originalIndex: index + 1, status: undefined }
CreateSteps(rawSteps) ==
    [ id \in { generateStepId(k) : k \in 1..Len(rawSteps) } |->
        LET k == CHOOSE j \in 1..Len(rawSteps) : generateStepId(j) = id
        IN [ content |-> rawSteps[k], status |-> Unset, originalIndex |-> k ] ]

Init ==
    \E raw \in RawPlans :
        /\ planState = CreatePlanState(raw)
        /\ heap = CreateSteps(raw)
        /\ nextId = Len(raw)
        /\ inflight = [ id \in DOMAIN CreateSteps(raw) |-> 0 ]
        /\ message = [ command |-> "generatePlan" ]
        /\ posted = <<>>
        /\ intents = 0
        /\ repeated = FALSE
        /\ webview = LoadWebview(planState, heap)
        /\ channel = NoMessages

----------------------------------------------------------------------------
(* panel.webview.onDidReceiveMessage: one action per case of the switch.   *)
(* A handler runs to its end before the next event is taken: the only      *)
(* awaits are the generator call inside refineStep, whose continuation is  *)
(* RefineComplete, and those of savePlan and sendToCopilotChat, which      *)
(* write nothing.                                                          *)

\* Faulty variant of Reply: the state is posted with the lastModified it had.
Reply_StaleTimestamp(steps2, heap2, updated, first) ==
    /\ planState' = [ planState EXCEPT !.steps = steps2 ]
    /\ heap' = heap2
    /\ posted' = IF updated
                 THEN Append(first, StateUpdated(planState', heap'))
                 ELSE first
    /\ intents' = intents + 1

\* The end of the handler: if (updated) { planState.lastModified = new Date();
\* postMessage({ command: 'stateUpdated', state: planState }) }.
\* steps2 and heap2 are what the case left; first is what it posted itself.
Reply(steps2, heap2, updated, first) ==
    /\ planState' = [ planState EXCEPT
                        !.steps = steps2,
                        !.lastModified = IF updated THEN NewDate(@) ELSE @ ]
    /\ heap' = heap2
    /\ posted' = IF updated
                 THEN Append(first, StateUpdated(planState', heap'))
                 ELSE first
    /\ intents' = intents + 1

\* Faulty variant of AcceptStep: the message is dropped while a refine call is
\* outstanding.
AcceptStep_DropWhileRefining(id) ==
    /\ intents < MaxIntents
    /\ message' = [ command |-> "acceptStep", id |-> id ]
    /\ IF /\ validateStepOperation(id, planState.steps)
          /\ \A s \in DOMAIN inflight : inflight[s] = 0
       THEN Reply(planState.steps, [ heap EXCEPT ![id].status = "accepted" ], TRUE, <<>>)
       ELSE Reply(planState.steps, heap, FALSE, <<>>)
    /\ UNCHANGED <<nextId, inflight, repeated>>

\* Faulty variant of AcceptStep: the accepted step is moved to the front.
AcceptStep_MovesToFront(id) ==
    /\ intents < MaxIntents
    /\ message' = [ command |-> "acceptStep", id |-> id ]
    /\ IF validateStepOperation(id, planState.steps)
       THEN Reply(<<id>> \o SelectSeq(planState.steps, LAMBDA s : s # id),
                  [ heap EXCEPT ![id].status = "accepted" ], TRUE, <<>>)
       ELSE Reply(planState.steps, heap, FALSE, <<>>)
    /\ UNCHANGED <<nextId, inflight, repeated>>

AcceptStep(id) ==
    /\ intents < MaxIntents
    /\ message' = [ command |-> "acceptStep", id |-> id ]
    /\ IF validateStepOperation(id, planState.steps)
       THEN Reply(planState.steps, [ heap EXCEPT ![id].status = "accepted" ], TRUE, <<>>)
       ELSE Reply(planState.steps, heap, FALSE, <<>>)
    /\ UNCHANGED <<nextId, inflight, repeated>>

\* Faulty variant of RejectStep: the status stored is 'refining'.
RejectStep_StoresRefining(id) ==
    /\ intents < MaxIntents
    /\ message' = [ command |-> "rejectStep", id |-> id ]
    /\ IF validateStepOperation(id, planState.steps)
       THEN /\ inflight' = [ inflight EXCEPT ![id] = @ + 1 ]
            /\ Reply(planState.steps, [ heap EXCEPT ![id].status = "refining" ],
                     TRUE, << UpdateStepStatus(id) >>)
       ELSE /\ UNCHANGED inflight
            /\ Reply(planState.steps, heap, FALSE, <<>>)
    /\ UNCHANGED <<nextId, repeated>>

\* Faulty variant of RejectStep: updateStepStatus is posted after the
\* stateUpdated.
RejectStep_FlashAfterBroadcast(id) ==
    /\ intents < MaxIntents
    /\ message' = [ command |-> "rejectStep", id |-> id ]
    /\ IF validateStepOperation(id, planState.steps)
       THEN /\ inflight' = [ inflight EXCEPT ![id] = @ + 1 ]
            /\ planState' = [ planState EXCEPT !.lastModified = NewDate(@) ]
            /\ heap' = [ heap EXCEPT ![id].status = "rejected" ]
            /\ posted' = << StateUpdated(planState', heap'), UpdateStepStatus(id) >>
            /\ intents' = intents + 1
       ELSE /\ UNCHANGED inflight
            /\ Reply(planState.steps, heap, FALSE, <<>>)
    /\ UNCHANGED <<nextId, repeated>>

\* The call of refineStep is started inside the handler and not awaited; its
\* arguments only feed the prompt.
RejectStep(id) ==
    /\ intents < MaxIntents
    /\ message' = [ command |-> "rejectStep", id |-> id ]
    /\ IF validateStepOperation(id, planState.steps)
       THEN /\ inflight' = [ inflight EXCEPT ![id] = @ + 1 ]
            /\ Reply(planState.steps, [ heap EXCEPT ![id].status = "rejected" ],
                     TRUE, << UpdateStepStatus(id) >>)
       ELSE /\ UNCHANGED inflight
            /\ Reply(planState.steps, heap, FALSE, <<>>)
    /\ UNCHANGED <<nextId, repeated>>

\* Faulty variant of EditStep: the content is stored and broadcast without
\* being compared with the content the step has.
EditStep_AlwaysUpdates(id, content) ==
    /\ intents < MaxIntents
    /\ message' = [ command |-> "editStep", id |-> id, content |-> content ]
    /\ IF validateStepOperation(id, planState.steps)
       THEN Reply(planState.steps,
                  [ heap EXCEPT ![id].content = content, ![id].status = "edited" ],
                  TRUE, <<>>)
       ELSE Reply(planState.steps, heap, FALSE, <<>>)
    /\ UNCHANGED <<nextId, inflight, repeated>>

\* Faulty variant of EditStep: the text is stored as the task description too.
EditStep_RenamesTask(id, content) ==
    /\ intents < MaxIntents
    /\ message' = [ command |-> "editStep", id |-> id, content |-> content ]
    /\ IF validateStepOperation(id, planState.steps) /\ heap[id].content # content
       THEN /\ planState' = [ planState EXCEPT !.taskDescription = content,
                                               !.lastModified = NewDate(@) ]
            /\ heap' = [ heap EXCEPT ![id].content = content, ![id].status = "edited" ]
            /\ posted' = << StateUpdated(planState', heap') >>
            /\ intents' = intents + 1
       ELSE Reply(planState.steps, heap, FALSE, <<>>)
    /\ UNCHANGED <<nextId, inflight, repeated>>

EditStep(id, content) ==
    /\ intents < MaxIntents
    /\ message' = [ command |-> "editStep", id |-> id, content |-> content ]
    /\ IF validateStepOperation(id, planState.steps) /\ heap[id].content # content
       THEN Reply(planState.steps,
                  [ heap EXCEPT ![id].content = content, ![id].status = "edited" ],
                  TRUE, <<>>)
       ELSE Reply(planState.steps, heap, FALSE, <<>>)
    /\ UNCHANGED <<nextId, inflight, repeated>>

\* Faulty variant of Reproject: the steps the list does not name are kept,
\* after the ones it names.
Reproject_KeepsUnlisted(newOrder, steps) ==
    SelectSeq(newOrder, LAMBDA id : validateStepOperation(id, steps))
      \o SelectSeq(steps, LAMBDA id : \A k \in 1..Len(newOrder) : newOrder[k] # id)

\* newOrder.forEach(id => { const step = steps.find(...); if (step) newSteps.push(step) })
Reproject(newOrder, steps) ==
    SelectSeq(newOrder, LAMBDA id : validateStepOperation(id, steps))

ReorderSteps(newOrder) ==
    /\ intents < MaxIntents
    /\ message' = [ command |-> "reorderSteps" ]
    /\ LET newSteps == Reproject(newOrder, planState.steps)
       IN Reply(newSteps, updateStepIndices(newSteps, heap), TRUE, <<>>)
    /\ repeated' = (repeated \/ ~IsDuplicateFree(newOrder))
    /\ UNCHANGED <<nextId, inflight>>

\* Faulty variant of DeleteStep: the step and every step after it are removed.
DeleteStep_Truncates(id) ==
    /\ intents < MaxIntents
    /\ message' = [ command |-> "deleteStep", id |-> id ]
    /\ LET kept == IF validateStepOperation(id, planState.steps)
                   THEN SubSeq(planState.steps, 1, findIndex(planState.steps, id) - 1)
                   ELSE planState.steps
       IN Reply(kept, updateStepIndices(kept, heap), TRUE, <<>>)
    /\ UNCHANGED <<nextId, inflight, repeated>>

DeleteStep(id) ==
    /\ intents < MaxIntents
    /\ message' = [ command |-> "deleteStep", id |-> id ]
    /\ LET kept == SelectSeq(planState.steps, LAMBDA s : s # id)
       IN Reply(kept, updateStepIndices(kept, heap), TRUE, <<>>)
    /\ UNCHANGED <<nextId, inflight, repeated>>

\* steps.splice(at, 0, id) with a 0-based at, and steps.push(id) for at = length
Splice(steps, at, id) ==
    SubSeq(steps, 1, at) \o <<id>> \o SubSeq(steps, at + 1, Len(steps))

\* Faulty variant of AddStep: the new step gets the id generated last.
AddStep_ReusesId(afterId, content) ==
    /\ intents < MaxIntents
    /\ message' = [ command |-> "addStep", afterId |-> afterId, content |-> content ]
    /\ LET id == generateStepId(nextId)
           newStep == [ content |-> content, status |-> "edited", originalIndex |-> -1 ]
           afterIndex == findIndex(planState.steps, afterId)
           steps2 == IF afterId # Null /\ afterIndex # 0
                     THEN Splice(planState.steps, afterIndex, id)
                     ELSE Append(planState.steps, id)
       IN /\ Reply(steps2, updateStepIndices(steps2, (id :> newStep) @@ heap), TRUE, <<>>)
          /\ inflight' = inflight @@ (id :> 0)
    /\ nextId' = nextId + 1
    /\ UNCHANGED repeated

\* Faulty variant of AddStep: the new step is put in front of the step named.
AddStep_InsertsBefore(afterId, content) ==
    /\ intents < MaxIntents
    /\ message' = [ command |-> "addStep", afterId |-> afterId, content |-> content ]
    /\ LET id == generateStepId(nextId + 1)
           newStep == [ content |-> content, status |-> "edited", originalIndex |-> -1 ]
           afterIndex == findIndex(planState.steps, afterId)
           steps2 == IF afterId # Null /\ afterIndex # 0
                     THEN Splice(planState.steps, afterIndex - 1, id)
                     ELSE Append(planState.steps, id)
       IN /\ Reply(steps2, updateStepIndices(steps2, heap @@ (id :> newStep)), TRUE, <<>>)
          /\ inflight' = inflight @@ (id :> 0)
    /\ nextId' = nextId + 1
    /\ UNCHANGED repeated

AddStep(afterId, content) ==
    /\ intents < MaxIntents
    /\ message' = [ command |-> "addStep", afterId |-> afterId, content |-> content ]
    /\ LET id == generateStepId(nextId + 1)
           newStep == [ content |-> content, status |-> "edited", originalIndex |-> -1 ]
           afterIndex == findIndex(planState.steps, afterId)
           steps2 == IF afterId # Null /\ afterIndex # 0
                     THEN Splice(planState.steps, afterIndex, id)
                     ELSE Append(planState.steps, id)
       IN /\ Reply(steps2, updateStepIndices(steps2, heap @@ (id :> newStep)), TRUE, <<>>)
          /\ inflight' = inflight @@ (id :> 0)
    /\ nextId' = nextId + 1
    /\ UNCHANGED repeated

\* Faulty variant of SavePlan: the export counts as an update.
SavePlan_Touches ==
    /\ intents < MaxIntents
    /\ message' = [ command |-> "savePlan" ]
    /\ Reply(planState.steps, heap, TRUE, <<>>)
    /\ UNCHANGED <<nextId, inflight, repeated>>

SavePlan ==
    /\ intents < MaxIntents
    /\ message' = [ command |-> "savePlan" ]
    /\ Reply(planState.steps, heap, FALSE, <<>>)
    /\ UNCHANGED <<nextId, inflight, repeated>>

SendToCopilotChat(content) ==
    /\ intents < MaxIntents
    /\ message' = [ command |-> "sendToCopilotChat", content |-> content ]
    /\ Reply(planState.steps, heap, FALSE, <<>>)
    /\ UNCHANGED <<nextId, inflight, repeated>>

----------------------------------------------------------------------------
(* The continuation of the rejectStep handler's withProgress task, run     *)
(* when refineStep returns.  refineStep catches every error of the         *)
(* generator call and returns a text in all three cases.  message keeps,   *)
(* as replaced, the status the continuation overwrites.                    *)

Outcomes == { "answer", "empty", "throw" }

refineStep(outcome) ==
    CASE outcome = "answer" -> RefinedText
      [] outcome = "empty"  -> FallbackText
      [] outcome = "throw"  -> ErrorText

\* Faulty variant of RefineComplete: a failed call leaves the status as it was.
RefineComplete_KeepStatusOnError(id, outcome) ==
    /\ inflight[id] > 0
    /\ inflight' = [ inflight EXCEPT ![id] = @ - 1 ]
    /\ message' = [ command |-> "refineStep", id |-> id, outcome |-> outcome,
                     replaced |-> heap[id].status ]
    /\ heap' = [ heap EXCEPT ![id].content = refineStep(outcome),
                             ![id].status = IF outcome = "throw" THEN @ ELSE "edited" ]
    /\ planState' = [ planState EXCEPT !.lastModified = NewDate(@) ]
    /\ posted' = << StateUpdated(planState', heap') >>
    /\ UNCHANGED <<nextId, intents, repeated>>

\* Faulty variant of RefineComplete: a failed call posts nothing.
RefineComplete_SilentOnError(id, outcome) ==
    /\ inflight[id] > 0
    /\ inflight' = [ inflight EXCEPT ![id] = @ - 1 ]
    /\ message' = [ command |-> "refineStep", id |-> id, outcome |-> outcome,
                     replaced |-> heap[id].status ]
    /\ heap' = [ heap EXCEPT ![id].content = refineStep(outcome), ![id].status = "edited" ]
    /\ planState' = [ planState EXCEPT !.lastModified = NewDate(@) ]
    /\ posted' = IF outcome = "throw" THEN <<>> ELSE << StateUpdated(planState', heap') >>
    /\ UNCHANGED <<nextId, intents, repeated>>

\* Faulty variant of RefineComplete: the result is dropped when the step is no
\* longer rejected.
RefineComplete_OnlyIfRejected(id, outcome) ==
    /\ inflight[id] > 0
    /\ inflight' = [ inflight EXCEPT ![id] = @ - 1 ]
    /\ message' = [ command |-> "refineStep", id |-> id, outcome |-> outcome,
                     replaced |-> heap[id].status ]
    /\ heap' = IF heap[id].status = "rejected"
               THEN [ heap EXCEPT ![id].content = refineStep(outcome), ![id].status = "edited" ]
               ELSE heap
    /\ planState' = [ planState EXCEPT !.lastModified = NewDate(@) ]
    /\ posted' = << StateUpdated(planState', heap') >>
    /\ UNCHANGED <<nextId, intents, repeated>>

\* Faulty variant of RefineComplete: every rejected step is marked edited.
RefineComplete_AllRejected(id, outcome) ==
    /\ inflight[id] > 0
    /\ inflight' = [ inflight EXCEPT ![id] = @ - 1 ]
    /\ message' = [ command |-> "refineStep", id |-> id, outcome |-> outcome,
                     replaced |-> heap[id].status ]
    /\ heap' = [ s \in DOMAIN heap |->
                  IF s = id
                  THEN [ heap[s] EXCEPT !.content = refineStep(outcome), !.status = "edited" ]
                  ELSE IF heap[s].status = "rejected"
                       THEN [ heap[s] EXCEPT !.status = "edited" ]
                       ELSE heap[s] ]
    /\ planState' = [ planState EXCEPT !.lastModified = NewDate(@) ]
    /\ posted' = << StateUpdated(planState', heap') >>
    /\ UNCHANGED <<nextId, intents, repeated>>

\* Faulty variant of RefineComplete: a step that is no longer in the plan is
\* put back at its end.
RefineComplete_Reinserts(id, outcome) ==
    /\ inflight[id] > 0
    /\ inflight' = [ inflight EXCEPT ![id] = @ - 1 ]
    /\ message' = [ command |-> "refineStep", id |-> id, outcome |-> outcome,
                     replaced |-> heap[id].status ]
    /\ heap' = [ heap EXCEPT ![id].content = refineStep(outcome), ![id].status = "edited" ]
    /\ planState' = [ planState EXCEPT
                        !.steps = IF validateStepOperation(id, @) THEN @ ELSE Append(@, id),
                        !.lastModified = NewDate(@) ]
    /\ posted' = << StateUpdated(planState', heap') >>
    /\ UNCHANGED <<nextId, intents, repeated>>

RefineComplete(id, outcome) ==
    /\ inflight[id] > 0
    /\ inflight' = [ inflight EXCEPT ![id] = @ - 1 ]
    /\ message' = [ command |-> "refineStep", id |-> id, outcome |-> outcome,
                     replaced |-> heap[id].status ]
    /\ heap' = [ heap EXCEPT ![id].content = refineStep(outcome), ![id].status = "edited" ]
    /\ planState' = [ planState EXCEPT !.lastModified = NewDate(@) ]
    /\ posted' = << StateUpdated(planState', heap') >>
    /\ UNCHANGED <<nextId, intents, repeated>>

----------------------------------------------------------------------------
(* Specification *)

\* Ids a message may name: every id generated so far, and one never generated.
MessageIds == AllocatedIds \cup { UnknownId }

SeqsUpTo(S, n) == UNION { [ 1..k -> S ] : k \in 0..n }

\* The message handler and the continuations of its refine calls, the page
\* left aside: any message may arrive at any time.
Next ==
    \/ \E id \in MessageIds : AcceptStep(id) /\ UNCHANGED view
    \/ \E id \in MessageIds : RejectStep(id) /\ UNCHANGED view
    \/ \E id \in MessageIds, content \in Texts : EditStep(id, content) /\ UNCHANGED view
    \/ \E newOrder \in SeqsUpTo(MessageIds, MaxOrderLen) :
          ReorderSteps(newOrder) /\ UNCHANGED view
    \/ \E id \in MessageIds : DeleteStep(id) /\ UNCHANGED view
    \/ \E afterId \in MessageIds \cup { Null }, content \in Texts :
          AddStep(afterId, content) /\ UNCHANGED view
    \/ SavePlan /\ UNCHANGED view
    \/ \E content \in Texts : SendToCopilotChat(content) /\ UNCHANGED view
    \/ \E id \in AllocatedIds, outcome \in Outcomes :
          RefineComplete(id, outcome) /\ UNCHANGED view

Spec == Init /\ [][Next]_vars

\* Every id a behaviour can generate: the longest initial plan and one
\* addStep per message.
IdUniverse ==
    LET longest == CHOOSE n \in { Len(raw) : raw \in RawPlans } :
                      \A raw \in RawPlans : Len(raw) <= n
    IN { generateStepId(n) : n \in 1..(longest + MaxIntents) }

\* The generator answers or fails a call made for step id.
Completes(id) ==
    /\ id \in DOMAIN inflight
    /\ \E outcome \in Outcomes : RefineComplete(id, outcome)
    /\ UNCHANGED view

\* Every call of the generator returns, so every continuation runs.
FairSpec == Spec /\ \A id \in IdUniverse : WF_vars(Completes(id))

\* The newOrder lists of ReorderSpec: every list, up to the length of the
\* plan, of ids of the plan and the id that names no step.
ReorderLists == SeqsUpTo(MessageIds, Len(ThreeStepPlan))

\* A session on a plan of three steps in which steps are accepted and
\* reordered.
ReorderInit ==
    /\ planState = CreatePlanState(ThreeStepPlan)
    /\ heap = CreateSteps(ThreeStepPlan)
    /\ nextId = Len(ThreeStepPlan)
    /\ inflight = [ id \in DOMAIN CreateSteps(ThreeStepPlan) |-> 0 ]
    /\ message = [ command |-> "generatePlan" ]
    /\ posted = <<>>
    /\ intents = 0
    /\ repeated = FALSE
    /\ webview = LoadWebview(planState, heap)
    /\ channel = NoMessages

ReorderNext ==
    \/ \E id \in MessageIds : AcceptStep(id) /\ UNCHANGED view
    \/ \E newOrder \in ReorderLists : ReorderSteps(newOrder) /\ UNCHANGED view

ReorderSpec == ReorderInit /\ [][ReorderNext]_vars

\* The generatePlan command at the point where the generator has
\* answered: message holds the answer's text, planState does not exist and
\* there is no panel.
ParseInit ==
    \E ts \in SeqsUpTo(PlanTokens, MaxPlanTokens) :
        /\ message = [ command |-> "planResponse", plan |-> Flatten(ts) ]
        /\ planState = NoPlanState
        /\ heap = << >>
        /\ nextId = 0
        /\ inflight = << >>
        /\ posted = <<>>
        /\ intents = 0
        /\ repeated = FALSE
        /\ webview = NoPanel
        /\ channel = NoMessages

\* What showErrorMessage is called with on the three ways out
ParseError == "Could not parse any actionable steps from the generated plan."
EmptyError == "Failed to generate plan. Please try again."
ThrownError == "Error generating plan"

\* Faulty variant of GeneratePlan: the state and the panel are made before
\* the parsed steps are counted.
GeneratePlan_CreatesFirst ==
    /\ message.command = "planResponse"
    /\ LET plan == message.plan
           rawSteps == IF Len(plan) > 0 THEN parsePlanIntoSteps(plan) ELSE <<>>
       IN /\ message' = [ command |-> "generatePlan", plan |-> plan, rawSteps |-> rawSteps,
                          error |-> IF Len(plan) = 0 THEN EmptyError
                                    ELSE IF Len(rawSteps) = 0 THEN ParseError
                                    ELSE "" ]
          /\ IF Len(plan) = 0
             THEN UNCHANGED <<planState, heap, nextId, inflight, webview>>
             ELSE /\ planState' = CreatePlanState(rawSteps)
                  /\ heap' = CreateSteps(rawSteps)
                  /\ nextId' = Len(rawSteps)
                  /\ inflight' = [ id \in DOMAIN CreateSteps(rawSteps) |-> 0 ]
                  /\ webview' = LoadWebview(planState', heap')
    /\ UNCHANGED <<posted, intents, repeated, channel>>

\* const plan = response.choices[0].message?.content; if (plan) { const
\* rawSteps = parsePlanIntoSteps(plan); if (rawSteps.length === 0) {
\* showErrorMessage(...); return; } let planState = { ... }; const panel =
\* createWebviewPanel(...); panel.webview.html = ...;
\* panel.webview.onDidReceiveMessage(...) } else { showErrorMessage(...) }.
\* No content at all and an empty text both fail the test of plan.
GeneratePlan ==
    /\ message.command = "planResponse"
    /\ LET plan == message.plan
           rawSteps == IF Len(plan) > 0 THEN parsePlanIntoSteps(plan) ELSE <<>>
       IN /\ message' = [ command |-> "generatePlan", plan |-> plan, rawSteps |-> rawSteps,
                          error |-> IF Len(plan) = 0 THEN EmptyError
                                    ELSE IF Len(rawSteps) = 0 THEN ParseError
                                    ELSE "" ]
          /\ IF Len(rawSteps) = 0
             THEN UNCHANGED <<planState, heap, nextId, inflight, webview>>
             ELSE /\ planState' = CreatePlanState(rawSteps)
                  /\ heap' = CreateSteps(rawSteps)
                  /\ nextId' = Len(rawSteps)
                  /\ inflight' = [ id \in DOMAIN CreateSteps(rawSteps) |-> 0 ]
                  /\ webview' = LoadWebview(planState', heap')
    /\ UNCHANGED <<posted, intents, repeated, channel>>

ParseNext == GeneratePlan

ParseSpec == ParseInit /\ [][ParseNext]_vars

\* What the generator may answer in GenerateSpec: nothing, a label with a
\* body of MinContentLength characters (no step), one with a body of one
\* character more (one step), and two labels with such bodies (two steps).
GeneratedPlans ==
    { "",
      LabelOne \o LongWord,
      LabelOne \o LongWord \o ShortWord,
      LabelOne \o LongWord \o ShortWord \o LabelTwo \o ShortWord \o LongWord }

\* The generatePlan command at await openai.chat.completions.create(...):
\* the task has been typed, nothing has been created.
GenerateInit ==
    /\ message = [ command |-> "generatorCall" ]
    /\ planState = NoPlanState
    /\ heap = << >>
    /\ nextId = 0
    /\ inflight = << >>
    /\ posted = <<>>
    /\ intents = 0
    /\ repeated = FALSE
    /\ webview = NoPanel
    /\ channel = NoMessages

\* The call throws: catch (error) { showErrorMessage(`Error generating
\* plan: ...`) }
GeneratorThrows ==
    /\ message.command = "generatorCall"
    /\ message' = [ command |-> "generatePlan", plan |-> "", rawSteps |-> <<>>,
                    error |-> ThrownError ]
    /\ UNCHANGED <<planState, heap, nextId, inflight, posted, intents, repeated, view>>

\* The call returns a response whose content is plan.
GeneratorAnswers(plan) ==
    /\ message.command = "generatorCall"
    /\ message' = [ command |-> "planResponse", plan |-> plan ]
    /\ UNCHANGED <<planState, heap, nextId, inflight, posted, intents, repeated, view>>

\* The command from the generator call on, and the session that follows
\* once the handler is registered on the panel.
GenerateNext ==
    \/ GeneratorThrows
    \/ \E plan \in GeneratedPlans : GeneratorAnswers(plan)
    \/ GeneratePlan
    \/ webview.listening /\ Next

GenerateSpec == GenerateInit /\ [][GenerateNext]_vars

----------------------------------------------------------------------------
(* The session with its page: the user's gestures on the cards, the two    *)
(* directions of the message channel, the handler and the refine calls.    *)
(* A listener of the page is a function of the page's state w that gives   *)
(* the state it leaves and the messages it passes to vscode.postMessage.   *)

\* The Controller side, which the page neither reads nor writes
controller == <<planState, heap, nextId, inflight, message, posted, intents, repeated>>

Post(w, msgs) == [ w |-> w, out |-> msgs ]

\* A click on a control that carries n listeners (n is 1 or 2): each runs,
\* one after the other, on what the one before left.
Dispatch(H(_), w, n) ==
    IF n = 1
    THEN H(w)
    ELSE LET first == H(w)
             second == H(first.w)
         IN Post(second.w, first.out \o second.out)

\* The click listeners of the accept, reject and delete buttons
onAccept(w, stepId) == Post(w, << [ command |-> "acceptStep", id |-> stepId ] >>)
onReject(w, stepId) == Post(w, << [ command |-> "rejectStep", id |-> stepId ] >>)
onDelete(w, stepId) == Post(w, << [ command |-> "deleteStep", id |-> stepId ] >>)

\* enterEditMode(stepId)
enterEditMode(w, stepId) ==
    LET k == CardOf(w.cards, stepId)
    IN IF k # 0 /\ MirrorIndex(w.planState.steps, stepId) # 0
       THEN LET editing == [ w.cards EXCEPT
                               ![k].contentEditable = TRUE,
                               ![k].originalContent =
                                   cleanHtmlForContenteditable(innerHTML(w.cards[k])) ]
            IN Post([ w EXCEPT !.cards = updateButtonStates(editing, w.planState) ], <<>>)
       ELSE Post(w, <<>>)

\* exitEditMode(stepId, save): on save the text of the card is compared
\* with the content of the step in the mirror (undefined when the mirror
\* has no such step); on cancel the card is given cleanMarkdown of the text
\* kept at entry.
exitEditMode(w, stepId, save) ==
    LET k == CardOf(w.cards, stepId)
    IN IF k # 0
       THEN LET at == MirrorIndex(w.planState.steps, stepId)
                newContent == textContent(innerHTML(w.cards[k]))
                closed == [ w.cards EXCEPT
                              ![k].contentEditable = FALSE,
                              ![k].content =
                                  IF ~save /\ w.cards[k].originalContent # Unset
                                  THEN Rendered(w.cards[k].originalContent)
                                  ELSE @ ]
            IN Post([ w EXCEPT !.cards = updateButtonStates(closed, w.planState) ],
                    IF save /\ (at = 0 \/ newContent # w.planState.steps[at].content)
                    THEN << [ command |-> "editStep", id |-> stepId, content |-> newContent ] >>
                    ELSE <<>>)
       ELSE Post(w, <<>>)

\* The ids of the steps of the mirror, in order: newOrder.map(s => s.id)
MirrorIds(steps) == [ k \in 1..Len(steps) |-> steps[k].id ]

\* [ids[i], ids[j]] = [ids[j], ids[i]]
Swap(ids, i, j) == [ ids EXCEPT ![i] = ids[j], ![j] = ids[i] ]

\* Faulty variant of onMoveUp: the card is written over its neighbour.
onMoveUp_Overwrites(w, stepId) ==
    LET at == MirrorIndex(w.planState.steps, stepId)
        ids == MirrorIds(w.planState.steps)
    IN IF at > 1
       THEN Post(w, << [ command |-> "reorderSteps",
                         newOrder |-> [ ids EXCEPT ![at - 1] = ids[at] ] ] >>)
       ELSE Post(w, <<>>)

\* The click listener of the move-up button: currentIndex > 0
onMoveUp(w, stepId) ==
    LET at == MirrorIndex(w.planState.steps, stepId)
    IN IF at > 1
       THEN Post(w, << [ command |-> "reorderSteps",
                         newOrder |-> Swap(MirrorIds(w.planState.steps), at - 1, at) ] >>)
       ELSE Post(w, <<>>)

\* The click listener of the move-down button: currentIndex < length - 1.
\* (A card whose id the mirror lacks makes the listener throw.)
onMoveDown(w, stepId) ==
    LET at == MirrorIndex(w.planState.steps, stepId)
    IN IF at # 0 /\ at < Len(w.planState.steps)
       THEN Post(w, << [ command |-> "reorderSteps",
                         newOrder |-> Swap(MirrorIds(w.planState.steps), at, at + 1) ] >>)
       ELSE Post(w, <<>>)

\* ids.splice(at, 0, id), at counted from 0 and cut at the length
InsertAt(ids, at, id) ==
    LET n == IF at > Len(ids) THEN Len(ids) ELSE at
    IN SubSeq(ids, 1, n) \o << id >> \o SubSeq(ids, n + 1, Len(ids))

\* The drop listener of the card stepId, for a drop in its upper or its
\* lower half of what was dragged with the data droppedId
onDrop(w, stepId, droppedId, upper) ==
    LET droppedIndex == MirrorIndex(w.planState.steps, droppedId)
        targetIndex == MirrorIndex(w.planState.steps, stepId)
        ids == MirrorIds(w.planState.steps)
    IN IF /\ droppedId # Null
          /\ w.draggedItem # Null
          /\ droppedIndex # 0
          /\ targetIndex # 0
          /\ droppedIndex # targetIndex
       THEN LET rest == SubSeq(ids, 1, droppedIndex - 1)
                           \o SubSeq(ids, droppedIndex + 1, Len(ids))
            IN Post(w, << [ command |-> "reorderSteps",
                            newOrder |-> InsertAt(rest,
                                                  IF upper THEN targetIndex - 1 ELSE targetIndex,
                                                  droppedId) ] >>)
       ELSE Post(w, <<>>)

\* What addStep posts for a click on the add-step button
NewStepContent == "New plan step."

\* The click listener of the add-step button
onAddStep(w) ==
    LET steps == w.planState.steps
    IN Post(w, << [ command |-> "addStep",
                    afterId |-> IF Len(steps) > 0 THEN steps[Len(steps)].id ELSE Null,
                    content |-> NewStepContent ] >>)

\* saveExportPlan
saveExportPlan(w) == Post(w, << [ command |-> "savePlan" ] >>)

\* Faulty variant of updateUI: the cards are kept when their ids are those
\* of the new state.
updateUI_Patches(w, newState) ==
    [ w EXCEPT
        !.planState = newState,
        !.cards = IF [ k \in 1..Len(w.cards) |-> w.cards[k].id ] = MirrorIds(newState.steps)
                  THEN w.cards
                  ELSE [ k \in 1..Len(newState.steps) |->
                           setupCardEventListeners(createEditableStepCard(newState.steps[k])) ],
        !.progress = updateProgressDisplay(newState) ]

\* updateUI(newState)
updateUI(w, newState) ==
    LET stepCards == [ k \in 1..Len(newState.steps) |->
                         setupCardEventListeners(createEditableStepCard(newState.steps[k])) ]
    IN [ w EXCEPT
           !.planState = newState,
           !.cards = updateButtonStates(stepCards, newState),
           !.progress = updateProgressDisplay(newState) ]

\* A gesture of the user whose listeners leave r: the messages go out in
\* the order posted.
Gesture(r) ==
    /\ webview.open
    /\ webview.gestures < MaxGestures
    /\ webview' = [ r.w EXCEPT !.gestures = @ + 1 ]
    /\ channel' = [ channel EXCEPT !.toExtension = @ \o r.out ]
    /\ UNCHANGED controller

\* Clicks on the controls of the k-th card.  A disabled or hidden button
\* takes no click.
ClickAccept(k) ==
    LET card == webview.cards[k]
    IN /\ ~card.acceptDisabled
       /\ Gesture(Dispatch(LAMBDA w : onAccept(w, card.id), webview, card.listeners))

ClickReject(k) ==
    LET card == webview.cards[k]
    IN /\ ~card.rejectDisabled
       /\ Gesture(Dispatch(LAMBDA w : onReject(w, card.id), webview, card.listeners))

ClickDelete(k) ==
    LET card == webview.cards[k]
    IN Gesture(Dispatch(LAMBDA w : onDelete(w, card.id), webview, card.listeners))

ClickEdit(k) ==
    LET card == webview.cards[k]
    IN /\ ~card.contentEditable
       /\ Gesture(Dispatch(LAMBDA w : enterEditMode(w, card.id), webview, card.listeners))

\* The user replaces the text of a card in edit mode by text.
TypeText(k, text) ==
    LET card == webview.cards[k]
    IN /\ card.contentEditable
       /\ Gesture(Post([ webview EXCEPT !.cards[k].content = Typed(text) ], <<>>))

ClickSaveEdit(k) ==
    LET card == webview.cards[k]
    IN /\ card.contentEditable
       /\ Gesture(Dispatch(LAMBDA w : exitEditMode(w, card.id, TRUE), webview, card.listeners))

ClickCancelEdit(k) ==
    LET card == webview.cards[k]
    IN /\ card.contentEditable
       /\ Gesture(Dispatch(LAMBDA w : exitEditMode(w, card.id, FALSE), webview, card.listeners))

ClickMoveUp(k) ==
    LET card == webview.cards[k]
    IN Gesture(Dispatch(LAMBDA w : onMoveUp(w, card.id), webview, card.listeners))

ClickMoveDown(k) ==
    LET card == webview.cards[k]
    IN Gesture(Dispatch(LAMBDA w : onMoveDown(w, card.id), webview, card.listeners))

\* The j-th card is dragged and dropped on the upper or the lower half of
\* the k-th: dragstart on the one (draggedItem and the data are set), drop
\* on the other, dragend on the first (draggedItem = null).
DragAndDrop(j, k, upper) ==
    LET dragged == webview.cards[j]
        target == webview.cards[k]
        started == [ webview EXCEPT !.draggedItem = dragged.id ]
        dropped == Dispatch(LAMBDA w : onDrop(w, target.id, dragged.id, upper),
                            started, target.listeners)
    IN Gesture(Post([ dropped.w EXCEPT !.draggedItem = Null ], dropped.out))

ClickAddStep == Gesture(onAddStep(webview))

ClickSavePlan == Gesture(saveExportPlan(webview))

\* panel.webview.onDidReceiveMessage takes the oldest message the page has
\* posted; what the handler posts follows what is on its way to the page.
Receive ==
    /\ webview.listening
    /\ channel.toExtension # <<>>
    /\ LET m == Head(channel.toExtension)
       IN \/ m.command = "acceptStep" /\ AcceptStep(m.id)
          \/ m.command = "rejectStep" /\ RejectStep(m.id)
          \/ m.command = "editStep" /\ EditStep(m.id, m.content)
          \/ m.command = "reorderSteps" /\ ReorderSteps(m.newOrder)
          \/ m.command = "deleteStep" /\ DeleteStep(m.id)
          \/ m.command = "addStep" /\ AddStep(m.afterId, m.content)
          \/ m.command = "savePlan" /\ SavePlan
    /\ channel' = [ toExtension |-> Tail(channel.toExtension),
                    toWebview |-> channel.toWebview \o posted' ]
    /\ UNCHANGED webview

\* The generator answers or fails a refine call; the state is posted.
Refined(id, outcome) ==
    /\ RefineComplete(id, outcome)
    /\ channel' = [ channel EXCEPT !.toWebview = @ \o posted' ]
    /\ UNCHANGED webview

\* Faulty variant of OnMessage: a stateUpdated message is not applied while
\* a card is in edit mode.
OnMessage_KeepsEdit ==
    /\ channel.toWebview # <<>>
    /\ LET m == Head(channel.toWebview)
       IN webview' = IF /\ m.command = "stateUpdated"
                        /\ \A k \in 1..Len(webview.cards) : ~webview.cards[k].contentEditable
                     THEN updateUI(webview, m.state)
                     ELSE webview
    /\ channel' = [ channel EXCEPT !.toWebview = Tail(@) ]
    /\ UNCHANGED controller

\* window.addEventListener('message', ...): the page takes the oldest
\* message on its way; stateUpdated goes to updateUI, updateStepStatus has
\* no case.
OnMessage ==
    /\ channel.toWebview # <<>>
    /\ LET m == Head(channel.toWebview)
       IN webview' = IF m.command = "stateUpdated"
                     THEN updateUI(webview, m.state)
                     ELSE webview
    /\ channel' = [ channel EXCEPT !.toWebview = Tail(@) ]
    /\ UNCHANGED controller

\* The plan ViewSpec starts from: a step with bold text and one whose text
\* shows a dash once its heading mark is stripped.
ViewPlan == << "Use **JWT**", "# - a" >>

\* In ViewSpec the generator answers a refine call with a text or fails.
ViewOutcomes == { "answer", "throw" }

\* What the user types into a card
TypedTexts == { "x" }

ViewInit ==
    /\ planState = CreatePlanState(ViewPlan)
    /\ heap = CreateSteps(ViewPlan)
    /\ nextId = Len(ViewPlan)
    /\ inflight = [ id \in DOMAIN CreateSteps(ViewPlan) |-> 0 ]
    /\ message = [ command |-> "generatePlan" ]
    /\ posted = <<>>
    /\ intents = 0
    /\ repeated = FALSE
    /\ webview = LoadWebview(planState, heap)
    /\ channel = NoMessages

Cards == 1..Len(webview.cards)

ViewNext ==
    \/ \E k \in Cards : ClickAccept(k)
    \/ \E k \in Cards : ClickReject(k)
    \/ \E k \in Cards : ClickDelete(k)
    \/ \E k \in Cards : ClickEdit(k)
    \/ \E k \in Cards, text \in TypedTexts : TypeText(k, text)
    \/ \E k \in Cards : ClickSaveEdit(k)
    \/ \E k \in Cards : ClickCancelEdit(k)
    \/ \E k \in Cards : ClickMoveUp(k)
    \/ \E k \in Cards : ClickMoveDown(k)
    \/ \E j, k \in Cards, upper \in BOOLEAN : DragAndDrop(j, k, upper)
    \/ ClickAddStep
    \/ ClickSavePlan
    \/ Receive
    \/ \E id \in AllocatedIds, outcome \in ViewOutcomes : Refined(id, outcome)
    \/ OnMessage

ViewSpec == ViewInit /\ [][ViewNext]_vars

\* The session in which the user moves, adds and deletes cards and does
\* nothing else.
MoveNext ==
    \/ \E k \in Cards : ClickMoveUp(k)
    \/ \E k \in Cards : ClickMoveDown(k)
    \/ \E j, k \in Cards, upper \in BOOLEAN : DragAndDrop(j, k, upper)
    \/ \E k \in Cards : ClickDelete(k)
    \/ ClickAddStep
    \/ Receive
    \/ OnMessage

MoveSpec == ViewInit /\ [][MoveNext]_vars


----------------------------------------------------------------------------
(* Properties *)

Steps == planState.steps

\* The fields of the step at 1-based position k of planState.steps.
StepAt(k) == heap[Steps[k]]

\* C1: as long as no reorderSteps list has named an id twice, the step at
\* 0-based position k of planState.steps has originalIndex k+1 (here: the
\* step at 1-based position k has originalIndex k), whatever add, delete,
\* reorder and other events were handled.
C1_IndexInvariant ==
    ~repeated => \A k \in 1..Len(Steps) : StepAt(k).originalIndex = k

\* C1 witness: an added step was moved in front of an initial one by a
\* reorder that dropped another step.
C1_Witness ==
    /\ ~repeated
    /\ message.command = "reorderSteps"
    /\ Steps = << generateStepId(3), generateStepId(1) >>
    /\ StepAt(1).originalIndex = 1

\* C2 as claimed: planState.steps never holds the same id twice, whatever
\* lists the reorderSteps messages carry.
C2_NoDuplicateIds == IsDuplicateFree(Steps)

\* The only way in for a duplicate: planState.steps holds no id twice as
\* long as no reorderSteps list has named an id twice.
NoDuplicateIdsUnlessListed ==
    ~repeated => IsDuplicateFree(Steps)

\* Some stateUpdated message among msgs shows step id with the given status.
Carries(msgs, id, status) ==
    \E i \in 1..Len(msgs) :
        /\ msgs[i].command = "stateUpdated"
        /\ \E k \in 1..Len(msgs[i].state.steps) :
              /\ msgs[i].state.steps[k].id = id
              /\ msgs[i].state.steps[k].status = status

\* The step just taken handled a rejectStep message naming a step of the plan.
RejectHandled ==
    /\ message'.command = "rejectStep"
    /\ intents' = intents + 1
    /\ validateStepOperation(message'.id, planState.steps)

\* The step just taken is the continuation of a refineStep call with this outcome.
RefineHandled(outcome) ==
    /\ message'.command = "refineStep"
    /\ message'.outcome = outcome
    /\ inflight'[message'.id] = inflight[message'.id] - 1

\* C3 as claimed: the reject of an existing step stores rejected and
\* broadcasts it, the status the refine continuation replaces is refining,
\* and a successful refine stores edited and broadcasts it.
C3_ThroughRefining ==
    [][ /\ RejectHandled =>
              /\ heap'[message'.id].status = "rejected"
              /\ Carries(posted', message'.id, "rejected")
        /\ RefineHandled("answer") =>
              /\ heap[message'.id].status = "refining"
              /\ heap'[message'.id].status = "edited"
              /\ validateStepOperation(message'.id, planState'.steps)
                    => Carries(posted', message'.id, "edited") ]_vars

\* C3 amended: the reject of an existing step stores rejected and posts
\* updateStepStatus{id, refining} followed by a stateUpdated that shows the
\* step rejected; refining is never stored in a step nor shown by a
\* stateUpdated; a successful refine stores edited with the refined text and
\* posts one stateUpdated, which shows the step edited if it is still in
\* the plan.
C3_RejectLifecycle ==
    [][ /\ RejectHandled =>
              /\ heap'[message'.id].status = "rejected"
              /\ Len(posted') = 2
              /\ posted'[1] = [ command |-> "updateStepStatus", id |-> message'.id,
                                status |-> "refining" ]
              /\ Carries(<< posted'[2] >>, message'.id, "rejected")
              /\ inflight'[message'.id] = inflight[message'.id] + 1
        /\ RefineHandled("answer") =>
              /\ heap'[message'.id].status = "edited"
              /\ heap'[message'.id].content = RefinedText
              /\ Len(posted') = 1
              /\ posted'[1].command = "stateUpdated"
              /\ validateStepOperation(message'.id, planState'.steps)
                    => /\ Carries(posted', message'.id, "edited")
                       /\ ~Carries(posted', message'.id, "rejected")
        /\ \A id \in DOMAIN heap' :
              /\ heap'[id].status # "refining"
              /\ ~Carries(posted', id, "refining") ]_vars

\* C3 witness: a refine call answered for a step of the plan that was still
\* rejected, and the broadcast shows the step edited.
C3_Witness ==
    /\ message.command = "refineStep"
    /\ message.outcome = "answer"
    /\ message.replaced = "rejected"
    /\ validateStepOperation(message.id, Steps)
    /\ heap[message.id].status = "edited"
    /\ Carries(posted, message.id, "edited")

Handled(command) ==
    /\ message'.command = command
    /\ intents' = intents + 1

\* The stateUpdated message that shows the state the step just taken left.
Broadcast == StateUpdated(planState', heap')

\* In the broadcast msg, step id, if it is shown, is neither rejected nor refining.
Settled(msg, id) ==
    /\ msg.command = "stateUpdated"
    /\ \A k \in 1..Len(msg.state.steps) :
          msg.state.steps[k].id = id
            => msg.state.steps[k].status \notin { "rejected", "refining" }

\* A refine call is outstanding.
Outstanding == \E id \in DOMAIN inflight : inflight[id] > 0

\* C5: whenever refine calls are outstanding, eventually none is, and the
\* number of calls outstanding for a step goes down only by the
\* continuation of such a call, which, whatever the outcome, posts one
\* stateUpdated broadcast of the state it left, in which the step, if still
\* in the plan, is neither rejected nor refining.
C5_RejectEventuallySettled ==
    /\ Outstanding ~> ~Outstanding
    /\ [][ \A id \in DOMAIN inflight :
             inflight'[id] < inflight[id] =>
               /\ message'.command = "refineStep"
               /\ message'.id = id
               /\ posted' = << Broadcast >>
               /\ Settled(posted'[1], id) ]_vars

\* C5 witness: the only refine call for a step of the plan failed and the
\* broadcast posted shows the step edited.
C5_Witness ==
    /\ message.command = "refineStep"
    /\ message.outcome = "throw"
    /\ inflight[message.id] = 0
    /\ validateStepOperation(message.id, Steps)
    /\ Len(posted) = 1
    /\ Carries(posted, message.id, "edited")

\* C6 as claimed: at most one refine call is outstanding for a step id.
C6_OneRefinePerStep ==
    \A id \in DOMAIN inflight : inflight[id] <= 1

\* C7: the last event that touches a step decides its content and status:
\* the refine continuation stores its text and edited over whatever an
\* accept or edit handled in between left; accept, reject and edit store
\* their own values; no event changes the content or status of a step it
\* does not name.
C7_LastWriteWins ==
    [][ /\ \A outcome \in Outcomes :
             RefineHandled(outcome) =>
               /\ heap'[message'.id].content = refineStep(outcome)
               /\ heap'[message'.id].status = "edited"
        /\ (Handled("acceptStep") /\ validateStepOperation(message'.id, planState.steps)) =>
               /\ heap'[message'.id].status = "accepted"
               /\ heap'[message'.id].content = heap[message'.id].content
        /\ RejectHandled =>
               /\ heap'[message'.id].status = "rejected"
               /\ heap'[message'.id].content = heap[message'.id].content
        /\ (Handled("editStep") /\ validateStepOperation(message'.id, planState.steps)) =>
               /\ heap'[message'.id].content = message'.content
               /\ heap'[message'.id].status =
                     IF heap[message'.id].content = message'.content
                     THEN heap[message'.id].status ELSE "edited"
        /\ \A id \in DOMAIN heap :
             (heap'[id].content # heap[id].content \/ heap'[id].status # heap[id].status)
               => /\ message'.command \in { "acceptStep", "rejectStep", "editStep", "refineStep" }
                  /\ message'.id = id ]_vars

\* C7 witness: a step was accepted while a refine call for it was
\* outstanding, and the continuation replaced accepted by edited and the
\* content by the refined text.
C7_Witness ==
    /\ message.command = "refineStep"
    /\ message.outcome = "answer"
    /\ message.replaced = "accepted"
    /\ validateStepOperation(message.id, Steps)
    /\ heap[message.id].status = "edited"
    /\ heap[message.id].content = RefinedText

\* C8: a PlanMessage handled while a refine call is outstanding is applied
\* as at any other time and its stateUpdated broadcast, showing the state it
\* left, is posted in the same step, while every outstanding call stays
\* outstanding: the continuation's broadcast comes later.
C8_IntentsDuringRefine ==
    [][ (Outstanding /\ intents' = intents + 1) =>
          /\ \A id \in DOMAIN inflight : inflight'[id] >= inflight[id]
          /\ (Handled("acceptStep") /\ validateStepOperation(message'.id, planState.steps)) =>
                /\ heap'[message'.id].status = "accepted"
                /\ posted' = << Broadcast >>
          /\ ( /\ Handled("editStep")
               /\ validateStepOperation(message'.id, planState.steps)
               /\ heap[message'.id].content # message'.content ) =>
                /\ heap'[message'.id].content = message'.content
                /\ posted' = << Broadcast >>
          /\ (Handled("deleteStep") /\ validateStepOperation(message'.id, planState.steps)) =>
                /\ ~validateStepOperation(message'.id, planState'.steps)
                /\ Len(planState'.steps) < Len(planState.steps)
                /\ posted' = << Broadcast >>
          /\ Handled("addStep") =>
                /\ Len(planState'.steps) = Len(planState.steps) + 1
                /\ validateStepOperation(generateStepId(nextId'), planState'.steps)
                /\ heap'[generateStepId(nextId')].content = message'.content
                /\ posted' = << Broadcast >>
          /\ Handled("reorderSteps") =>
                /\ \A k \in 1..Len(planState'.steps) :
                      validateStepOperation(planState'.steps[k], planState.steps)
                /\ posted' = << Broadcast >> ]_vars

\* C8 witness: a step was accepted, and the acceptance broadcast, while a
\* refine call for another step was outstanding.
C8_Witness ==
    /\ message.command = "acceptStep"
    /\ validateStepOperation(message.id, Steps)
    /\ heap[message.id].status = "accepted"
    /\ Carries(posted, message.id, "accepted")
    /\ \E other \in DOMAIN inflight \ { message.id } :
          /\ inflight[other] > 0
          /\ heap[other].status = "rejected"

\* C9: the continuation of a refine call for a step writes that step's
\* content and status and lastModified only: every other step object, the
\* order of the plan, the step's own index and the other outstanding calls
\* are as before.
C9_RefineFrame ==
    [][ \A outcome \in Outcomes :
          RefineHandled(outcome) =>
            /\ DOMAIN heap' = DOMAIN heap
            /\ \A other \in DOMAIN heap \ { message'.id } :
                  /\ heap'[other] = heap[other]
                  /\ inflight'[other] = inflight[other]
            /\ heap'[message'.id].originalIndex = heap[message'.id].originalIndex
            /\ planState'.steps = planState.steps
            /\ planState'.taskDescription = planState.taskDescription ]_vars

\* C9 witness: the refine call for one step returned while the call for
\* another step of the plan was outstanding; that other step is still
\* rejected with its parsed content.
C9_Witness ==
    /\ message.command = "refineStep"
    /\ validateStepOperation(message.id, Steps)
    /\ heap[message.id].status = "edited"
    /\ \E other \in DOMAIN inflight \ { message.id } :
          /\ inflight[other] > 0
          /\ validateStepOperation(other, Steps)
          /\ heap[other].status = "rejected"
          /\ heap[other].content \in { "plan text 1", "plan text 2" }

\* C10 as claimed: an acceptStep, rejectStep, editStep or deleteStep message
\* naming an id that is not in planState.steps changes nothing, starts no
\* refine call and posts nothing.
C10_LookupMissSilent ==
    [][ ( /\ message'.command \in { "acceptStep", "rejectStep", "editStep", "deleteStep" }
          /\ intents' = intents + 1
          /\ ~validateStepOperation(message'.id, planState.steps) ) =>
            /\ planState' = planState
            /\ heap' = heap
            /\ inflight' = inflight
            /\ posted' = <<>> ]_vars

\* C11: an editStep message whose content is identical to the content the
\* step has posts no stateUpdated (nothing at all), leaves lastModified as it
\* was and leaves the step's status, like everything else, unchanged.
C11_EditSameContentSilent ==
    [][ ( /\ Handled("editStep")
          /\ validateStepOperation(message'.id, planState.steps)
          /\ heap[message'.id].content = message'.content ) =>
            /\ posted' = <<>>
            /\ planState'.lastModified = planState.lastModified
            /\ heap'[message'.id].status = heap[message'.id].status
            /\ planState' = planState
            /\ heap' = heap ]_vars

\* C11 witness: an accepted step of the plan was edited with the content it
\* already had, after an earlier broadcast: nothing was posted and the step
\* is still accepted.
C11_Witness ==
    /\ message.command = "editStep"
    /\ validateStepOperation(message.id, Steps)
    /\ heap[message.id].content = message.content
    /\ heap[message.id].status = "accepted"
    /\ planState.lastModified > 0
    /\ posted = <<>>

\* The step just taken handled a PlanMessage that is not a no-op: an accept
\* or reject of a step of the plan, an edit of one with a different content,
\* a reorder, a delete of a step of the plan, or an add.
MutatingIntentHandled ==
    \/ Handled("acceptStep") /\ validateStepOperation(message'.id, planState.steps)
    \/ RejectHandled
    \/ /\ Handled("editStep")
       /\ validateStepOperation(message'.id, planState.steps)
       /\ heap[message'.id].content # message'.content
    \/ Handled("reorderSteps")
    \/ Handled("deleteStep") /\ validateStepOperation(message'.id, planState.steps)
    \/ Handled("addStep")

\* C12: the handler of a PlanMessage that is not a no-op refreshes
\* lastModified and, before it ends (so before the next message is handled),
\* posts exactly one stateUpdated, as its last message, which carries the
\* whole state the handler left.
C12_MutationBroadcasts ==
    [][ MutatingIntentHandled =>
          /\ planState'.lastModified > planState.lastModified
          /\ Len(posted') >= 1
          /\ posted'[Len(posted')] = Broadcast
          /\ posted'[Len(posted')].state.lastModified = planState'.lastModified
          /\ \A i \in 1..(Len(posted') - 1) : posted'[i].command # "stateUpdated" ]_vars

\* C12 witness: a step of the plan was deleted after two earlier mutations
\* and the one message posted is the stateUpdated carrying the state left,
\* without the step and with the refreshed lastModified.
C12_Witness ==
    /\ message.command = "deleteStep"
    /\ message.id \in DOMAIN heap
    /\ ~validateStepOperation(message.id, Steps)
    /\ planState.lastModified = intents
    /\ intents > 2
    /\ posted = << StateUpdated(planState, heap) >>
    /\ Len(posted[1].state.steps) = Len(Steps)

\* The ids a stateUpdated message shows, in the order it shows them.
IdsShown(msg) == [ k \in 1..Len(msg.state.steps) |-> msg.state.steps[k].id ]

\* C13: the handlers of acceptStep, editStep and rejectStep, and the
\* continuation of a refine call, leave planState.steps as it was: the same
\* ids at the same positions, none added, none removed; no step object is
\* created, and a stateUpdated they post shows exactly these ids in this
\* order.
C13_StatusEventsKeepSequence ==
    [][ ( \/ Handled("acceptStep") \/ Handled("editStep") \/ Handled("rejectStep")
          \/ \E outcome \in Outcomes : RefineHandled(outcome) ) =>
            /\ planState'.steps = planState.steps
            /\ DOMAIN heap' = DOMAIN heap
            /\ nextId' = nextId
            /\ \A id \in DOMAIN heap : heap'[id].originalIndex = heap[id].originalIndex
            /\ \A i \in 1..Len(posted') :
                  posted'[i].command = "stateUpdated"
                    => IdsShown(posted'[i]) = planState.steps ]_vars

\* C13 witness: in a plan reordered to (second, first), the step now last
\* was accepted; the order is as the reorder left it and the broadcast shows
\* it.
C13_Witness ==
    /\ message.command = "acceptStep"
    /\ message.id = generateStepId(1)
    /\ Steps = << generateStepId(2), generateStepId(1) >>
    /\ heap[message.id].status = "accepted"
    /\ Len(posted) = 1
    /\ IdsShown(posted[1]) = Steps

\* C14: a deleteStep message naming a step of the plan removes that id and
\* no other: planState.steps becomes what it was without that step, the
\* other steps in the order they had (one position fewer when the plan held
\* no id twice), and no step's content or status changes.
C14_DeleteRemovesOne ==
    [][ (Handled("deleteStep") /\ validateStepOperation(message'.id, planState.steps)) =>
          /\ ~validateStepOperation(message'.id, planState'.steps)
          /\ Range(planState'.steps) = Range(planState.steps) \ { message'.id }
          /\ planState'.steps =
                Restrict(planState.steps, Range(planState.steps) \ { message'.id })
          /\ IsDuplicateFree(planState.steps) =>
                \E k \in 1..Len(planState.steps) :
                    /\ planState.steps[k] = message'.id
                    /\ planState'.steps = SubSeq(planState.steps, 1, k - 1)
                                            \o SubSeq(planState.steps, k + 1, Len(planState.steps))
          /\ DOMAIN heap' = DOMAIN heap
          /\ \A id \in DOMAIN heap :
                /\ heap'[id].content = heap[id].content
                /\ heap'[id].status = heap[id].status ]_vars

\* C14 witness: the first of two steps was deleted after the second had
\* been accepted; the second is the whole plan, still accepted and with the
\* content it was parsed with.
C14_Witness ==
    /\ message.command = "deleteStep"
    /\ message.id = generateStepId(1)
    /\ Steps = << generateStepId(2) >>
    /\ StepAt(1).status = "accepted"
    /\ StepAt(1).content = "plan text 2"
    /\ posted = << StateUpdated(planState, heap) >>

\* C15: heap holds every step object ever created, so its domain is every
\* id that ever was in the plan; no id ever leaves it.  An addStep message
\* creates exactly one object, under an id that is not in that domain (so
\* neither in the plan now nor ever before), puts it at exactly one position
\* of planState.steps and keeps every step that was there, in the order
\* they had.
C15_AddIntroducesFreshId ==
    [][ /\ DOMAIN heap \subseteq DOMAIN heap'
        /\ Range(planState'.steps) \subseteq DOMAIN heap'
        /\ Handled("addStep") =>
              \E new \in DOMAIN heap' :
                  /\ new \notin DOMAIN heap
                  /\ new \notin Range(planState.steps)
                  /\ DOMAIN heap' = DOMAIN heap \cup { new }
                  /\ Cardinality(Positions(planState'.steps, { new })) = 1
                  /\ Len(planState'.steps) = Len(planState.steps) + 1
                  /\ Restrict(planState'.steps, Range(planState.steps)) = planState.steps ]_vars

\* C15 witness: a step was added after the first of two steps had been
\* deleted: the new step's id differs from the deleted one's, which is no
\* longer in the plan, and the step that remained comes first.
C15_Witness ==
    /\ message.command = "addStep"
    /\ generateStepId(1) \in DOMAIN heap
    /\ ~validateStepOperation(generateStepId(1), Steps)
    /\ Len(Steps) = 2
    /\ Steps[1] = generateStepId(2)
    /\ Steps[2] \notin { generateStepId(1), generateStepId(2) }
    /\ StepAt(2).content = message.content

\* C16: an addStep message creates a step with the message's content and
\* status edited and puts it right after the (first) position of
\* planState.steps that holds afterId, the steps before and after it being
\* the ones that were there; when afterId is null or names no step of the
\* plan the new step is put at the end.
C16_AddPlacement ==
    [][ Handled("addStep") =>
          LET new == CHOOSE id \in DOMAIN heap' : id \notin DOMAIN heap
              old == planState.steps
              afterId == message'.afterId
          IN /\ heap'[new].content = message'.content
             /\ heap'[new].status = "edited"
             /\ IF afterId # Null /\ validateStepOperation(afterId, old)
                THEN \E k \in 1..Len(old) :
                        /\ old[k] = afterId
                        /\ \A j \in 1..(k - 1) : old[j] # afterId
                        /\ planState'.steps[k + 1] = new
                        /\ heap'[new].originalIndex = k + 1
                        /\ SubSeq(planState'.steps, 1, k) = SubSeq(old, 1, k)
                        /\ SubSeq(planState'.steps, k + 2, Len(old) + 1)
                              = SubSeq(old, k + 1, Len(old))
                ELSE /\ planState'.steps = Append(old, new)
                     /\ heap'[new].originalIndex = Len(old) + 1 ]_vars

\* C16 witness: a step was added after the first of the two parsed steps:
\* it is second of three, edited, with the message's content.
C16_Witness ==
    /\ message.command = "addStep"
    /\ message.afterId = generateStepId(1)
    /\ Steps = << generateStepId(1), generateStepId(3), generateStepId(2) >>
    /\ StepAt(2).status = "edited"
    /\ StepAt(2).content = message.content
    /\ StepAt(2).originalIndex = 2

\* C18: the handlers of savePlan and sendToCopilotChat write nothing:
\* planState (its steps and lastModified), every step object and the
\* outstanding refine calls are as before, and no stateUpdated, nor any
\* other message, is posted.
C18_ExportLeavesState ==
    [][ (Handled("savePlan") \/ Handled("sendToCopilotChat")) =>
          /\ planState'.steps = planState.steps
          /\ planState'.lastModified = planState.lastModified
          /\ planState' = planState
          /\ heap' = heap
          /\ inflight' = inflight
          /\ posted' = <<>> ]_vars

\* C18 witness: the plan was exported after a step had been accepted and
\* while a refine call was outstanding: nothing was posted and lastModified
\* is the one the two earlier messages left.
C18_Witness ==
    /\ message.command = "savePlan"
    /\ posted = <<>>
    /\ planState.lastModified = intents - 1
    /\ intents > 2
    /\ Outstanding
    /\ \E k \in 1..Len(Steps) : StepAt(k).status = "accepted"

\* C19: planState.taskDescription is the task the plan was created for, in
\* every state: no handler and no refine continuation changes it, and every
\* stateUpdated posted carries it.
C19_TaskDescriptionImmutable ==
    /\ planState.taskDescription = Task
    /\ [][ /\ planState'.taskDescription = planState.taskDescription
           /\ \A i \in 1..Len(posted') :
                 posted'[i].command = "stateUpdated"
                   => posted'[i].state.taskDescription = planState.taskDescription ]_vars

\* C19 witness: after an edit with a new text and the continuation of a
\* refine call, the broadcast still carries the task.
C19_Witness ==
    /\ message.command = "refineStep"
    /\ \E k \in 1..Len(Steps) : StepAt(k).content = "New plan step."
    /\ planState.lastModified > 2
    /\ Len(posted) = 1
    /\ posted[1].state.taskDescription = Task
    /\ planState.taskDescription = Task

\* C17: a reorderSteps message with list newOrder sets planState.steps to
\* the entries of newOrder that name a step of the plan, in newOrder's
\* order: steps the list does not name are dropped, ids that name no step
\* are skipped; the content and status of every step are kept, and, when
\* the list names no id twice, the step at position k gets index k.  On the
\* plan (a, b, c) the list (c, a, b) gives (c, a, b) with indices 1, 2, 3
\* and the list (c, a) gives (c, a) with indices 1, 2.
C17_ReorderProjection ==
    [][ \A newOrder \in ReorderLists :
          ReorderSteps(newOrder) =>
            LET a == generateStepId(1)
                b == generateStepId(2)
                c == generateStepId(3)
            IN /\ planState'.steps = Restrict(newOrder, Range(planState.steps))
               /\ \A k \in 1..Len(planState'.steps) :
                     validateStepOperation(planState'.steps[k], planState.steps)
               /\ DOMAIN heap' = DOMAIN heap
               /\ \A id \in DOMAIN heap :
                     /\ heap'[id].content = heap[id].content
                     /\ heap'[id].status = heap[id].status
               /\ IsDuplicateFree(newOrder) =>
                     \A k \in 1..Len(planState'.steps) :
                        heap'[planState'.steps[k]].originalIndex = k
               /\ (planState.steps = <<a, b, c>> /\ newOrder = <<c, a, b>>) =>
                     /\ planState'.steps = <<c, a, b>>
                     /\ heap'[c].originalIndex = 1
                     /\ heap'[a].originalIndex = 2
                     /\ heap'[b].originalIndex = 3
               /\ (planState.steps = <<a, b, c>> /\ newOrder = <<c, a>>) =>
                     /\ planState'.steps = <<c, a>>
                     /\ heap'[c].originalIndex = 1
                     /\ heap'[a].originalIndex = 2 ]_vars

\* C17 witness: on the plan (a, b, c), with a accepted, one reorder left
\* (c, a) with indices 1 and 2: b was dropped and a is still accepted.
C17_Witness ==
    /\ message.command = "reorderSteps"
    /\ intents = 2
    /\ Steps = << generateStepId(3), generateStepId(1) >>
    /\ StepAt(1).originalIndex = 1
    /\ StepAt(2).originalIndex = 2
    /\ StepAt(2).status = "accepted"
    /\ StepAt(1).content = "plan text 3"
    /\ heap[generateStepId(2)].originalIndex = 2

\* The positions of text t at which a label Step <integer>: starts.
LabelStarts(t) == { i \in 1..Len(t) : MatchLabel(t, i) # 0 }

\* The body of the label that starts at position i of t: what follows the
\* label up to the next label or the end of the text, trimmed.
BodyOf(t, i) ==
    LET later == { j \in LabelStarts(t) : j > i }
        last == IF later = {} THEN Len(t) ELSE Nth(later, 1) - 1
    IN Trim(SubSeq(t, MatchLabel(t, i), last))

\* C20: the steps parsePlanIntoSteps returns for a text are the trimmed
\* bodies of its labels Step <integer>: (in any case), each reaching to the
\* next label or the end of the text, in the order of the labels, those of
\* more than MinContentLength characters and no others; so the text of one
\* label and a body of exactly 20 characters gives no step, one of 21
\* characters gives that step; and the plan is created with these contents.
C20_ParserBodies ==
    message.command = "generatePlan" =>
        LET plan == message.plan
            rawSteps == message.rawSteps
            kept == { i \in LabelStarts(plan) : Len(BodyOf(plan, i)) > MinContentLength }
        IN /\ Len(rawSteps) = Cardinality(kept)
           /\ \A j \in 1..Len(rawSteps) : rawSteps[j] = BodyOf(plan, Nth(kept, j))
           /\ \A j \in 1..Len(rawSteps) : Len(rawSteps[j]) >= 21
           /\ plan = LabelOne \o LongWord => rawSteps = <<>>
           /\ plan = LabelOne \o LongWord \o Space => rawSteps = <<>>
           /\ plan = LabelOne \o LongWord \o ShortWord => rawSteps = << LongWord \o ShortWord >>
           /\ Len(rawSteps) > 0 =>
                 /\ Len(planState.steps) = Len(rawSteps)
                 /\ \A j \in 1..Len(rawSteps) : heap[planState.steps[j]].content = rawSteps[j]

\* C20 witness: a text of two labels, the first with a body of exactly 20
\* characters and the second, in other case, with one of 21: the plan
\* created has one step, the second body.
C20_Witness ==
    /\ message.command = "generatePlan"
    /\ message.plan = LabelOne \o LongWord \o LabelTwo \o LongWord \o ShortWord
    /\ Len(BodyOf(message.plan, 1)) = 20
    /\ message.rawSteps = << LongWord \o ShortWord >>
    /\ planState.steps = << generateStepId(1) >>
    /\ heap[generateStepId(1)].content = LongWord \o ShortWord

\* msgs holds an updateStepStatus message.
HasStatusFlash(msgs) == \E i \in 1..Len(msgs) : msgs[i].command = "updateStepStatus"

\* C26: the handler of a rejectStep message naming a step of the plan posts
\* exactly one updateStepStatus{id, refining}, as its first message, in
\* front of its stateUpdated; a refine call, whose continuation posts the
\* final stateUpdated, is outstanding only from such a handler on, so that
\* stateUpdated is later still; no other handler and no continuation posts
\* an updateStepStatus.
C26_FlashBeforeBroadcast ==
    [][ /\ RejectHandled =>
              /\ posted' = << UpdateStepStatus(message'.id), Broadcast >>
              /\ posted'[1].status = "refining"
        /\ ~RejectHandled => ~HasStatusFlash(posted')
        /\ \A id \in DOMAIN inflight :
              inflight'[id] > inflight[id] =>
                 /\ RejectHandled
                 /\ message'.id = id
                 /\ inflight'[id] = inflight[id] + 1
                 /\ posted'[1] = UpdateStepStatus(id)
        /\ \A outcome \in Outcomes :
              RefineHandled(outcome) =>
                 /\ inflight[message'.id] > 0
                 /\ posted' = << Broadcast >> ]_vars

\* C26 witness: a step of the plan was rejected a second time while the
\* first refine call was outstanding: again one updateStepStatus, in front
\* of the stateUpdated.
C26_Witness ==
    /\ message.command = "rejectStep"
    /\ validateStepOperation(message.id, Steps)
    /\ inflight[message.id] = 2
    /\ Len(posted) = 2
    /\ posted[1] = UpdateStepStatus(message.id)
    /\ posted[2] = StateUpdated(planState, heap)

\* C28: an id that some step object has and that is not in planState.steps
\* (its step was deleted, or dropped by a reorder) is not in planState.steps
\* after any event either, whatever id the event names: a step comes into
\* the plan only as a new object.  The continuation of a refine call for
\* such a step leaves planState.steps as it was.
C28_DeletedStaysDeleted ==
    [][ /\ \A id \in DOMAIN heap :
              validateStepOperation(id, planState'.steps)
                 => validateStepOperation(id, planState.steps)
        /\ \A outcome \in Outcomes :
              (RefineHandled(outcome) /\ ~validateStepOperation(message'.id, planState.steps))
                 => planState'.steps = planState.steps ]_vars

\* C28 witness: the refine call for a step returned after the step had been
\* deleted: the step object holds the refined text, the plan does not hold
\* the step.
C28_Witness ==
    /\ message.command = "refineStep"
    /\ message.replaced = "rejected"
    /\ ~validateStepOperation(message.id, Steps)
    /\ heap[message.id].status = "edited"
    /\ Len(Steps) = 1
    /\ intents = 2

\* The statuses a step object may have.
StoredStatuses == { Unset, "accepted", "rejected", "edited" }

\* C29: in every state the status of every step object is unset, accepted,
\* rejected or edited, every step a stateUpdated message shows has one of
\* these, and a message that says refining is an updateStepStatus.
C29_RefiningNeverStored ==
    /\ \A id \in DOMAIN heap : heap[id].status \in StoredStatuses
    /\ \A i \in 1..Len(posted) :
          IF posted[i].command = "stateUpdated"
          THEN \A k \in 1..Len(posted[i].state.steps) :
                  posted[i].state.steps[k].status \in StoredStatuses
          ELSE /\ posted[i].command = "updateStepStatus"
               /\ posted[i].status = "refining"

\* C29 witness: a step of the plan was just rejected: updateStepStatus says
\* refining, the step object and the stateUpdated say rejected.
C29_Witness ==
    /\ message.command = "rejectStep"
    /\ validateStepOperation(message.id, Steps)
    /\ heap[message.id].status = "rejected"
    /\ posted[1].command = "updateStepStatus"
    /\ posted[1].status = "refining"
    /\ Carries(<< posted[2] >>, message.id, "rejected")
    /\ inflight[message.id] = 1

\* The command has ended in one of the three failures: the generator
\* threw, it answered no content, or no step was parsed from its answer.
GenerationFailed ==
    /\ message.command = "generatePlan"
    /\ \/ message.error = ThrownError
       \/ Len(message.plan) = 0
       \/ Len(parsePlanIntoSteps(message.plan)) = 0

\* C21: when the generator call throws, answers no content, or answers a
\* text from which no step is parsed, there is no planState and no step
\* object, no panel is open, no message handler is registered, nothing is
\* posted, and nothing happens afterwards: no message is ever handled.
C21_FailureCreatesNothing ==
    /\ [](GenerationFailed =>
             /\ planState = NoPlanState
             /\ DOMAIN heap = {}
             /\ nextId = 0
             /\ ~webview.open
             /\ ~webview.listening
             /\ posted = <<>>
             /\ channel = NoMessages)
    /\ [][~GenerationFailed]_vars

\* C21 witness: the generator answered a label with a body of exactly
\* MinContentLength characters, no step was parsed, and nothing exists.
C21_Witness ==
    /\ message.command = "generatePlan"
    /\ message.plan = LabelOne \o LongWord
    /\ message.rawSteps = <<>>
    /\ message.error = ParseError
    /\ planState = NoPlanState
    /\ ~webview.open

\* The page takes the oldest message on its way to it.
PageReceives ==
    /\ channel.toWebview # <<>>
    /\ channel'.toWebview = Tail(channel.toWebview)

\* The ids of the cards, in the order of the cards
CardIds(cards) == [ k \in 1..Len(cards) |-> cards[k].id ]

\* C24: when the page receives stateUpdated{state}, its mirror becomes
\* state, whatever it was, and its cards become the cards of the steps of
\* state, one per step and in their order, each as createEditableStepCard
\* makes it and with one listener per control: not in edit mode, without a
\* kept text, showing the step's content; any other message leaves the page
\* as it is.
C24_StateUpdatedRebuilds ==
    [][ PageReceives =>
          LET m == Head(channel.toWebview)
          IN IF m.command = "stateUpdated"
             THEN /\ webview'.planState = m.state
                  /\ CardIds(webview'.cards) = MirrorIds(m.state.steps)
                  /\ \A k \in 1..Len(m.state.steps) :
                        LET card == webview'.cards[k]
                            step == m.state.steps[k]
                        IN /\ card.number = step.originalIndex
                           /\ card.status = step.status
                           /\ card.content = Rendered(step.content)
                           /\ ~card.contentEditable
                           /\ card.originalContent = Unset
                           /\ card.listeners = 1
                           /\ card.acceptDisabled = (step.status = "accepted")
                  /\ webview'.gestures = webview.gestures
             ELSE webview' = webview ]_vars

\* C24 witness: the first step was deleted and the page has received the
\* state: one card, that of the second step, numbered 1; the initial cards,
\* with their two listeners, are gone.
C24_Witness ==
    /\ message.command = "deleteStep"
    /\ channel.toWebview = <<>>
    /\ webview.planState = Serialize(planState, heap)
    /\ CardIds(webview.cards) = << generateStepId(2) >>
    /\ webview.cards[1].number = 1
    /\ webview.cards[1].listeners = 1

\* The steps of the mirror that are accepted
AcceptedInMirror ==
    { k \in 1..Len(webview.planState.steps) : webview.planState.steps[k].status = "accepted" }

\* C25: at every moment the progress line of an open page shows the number
\* of accepted steps of the mirror, the number of its steps, and as
\* percentage 0 when the mirror has no steps and else the whole number
\* nearest to 100 * accepted / total (the upper one of two equally near),
\* which lies between 0 and 100.
C25_ProgressFromMirror ==
    webview.open =>
        LET a == Cardinality(AcceptedInMirror)
            t == Len(webview.planState.steps)
            p == webview.progress.percent
        IN /\ webview.progress.accepted = a
           /\ webview.progress.total = t
           /\ t = 0 => p = 0
           /\ t > 0 => /\ 200 * a - t < 2 * p * t
                       /\ 2 * p * t <= 200 * a + t
           /\ p \in 0..100

\* C25 witness: a step was added and one of the three accepted: the page
\* shows 1 of 3, 33 percent.
C25_Witness ==
    /\ Len(webview.planState.steps) = 3
    /\ Cardinality(AcceptedInMirror) = 1
    /\ webview.progress = [ accepted |-> 1, total |-> 3, percent |-> 33 ]

\* Nothing is on its way: no message in either direction and no refine
\* call awaiting the generator.
Quiescent ==
    /\ channel.toExtension = <<>>
    /\ channel.toWebview = <<>>
    /\ \A id \in DOMAIN inflight : inflight[id] = 0

\* The messages put on the way to the page in this step
NewToWebview ==
    IF PageReceives
    THEN <<>>
    ELSE SubSeq(channel'.toWebview, Len(channel.toWebview) + 1, Len(channel'.toWebview))

\* C27: whenever no message is on its way in either direction and no refine
\* call is outstanding, the steps of the mirror are the steps of planState,
\* with their ids, order, contents, statuses and indices (and so are the
\* other fields); and the mirror is always a state planState had: it starts
\* as the state the plan was created with, every stateUpdated message put on
\* the way carries the state planState has at that moment, the messages
\* are taken in the order they were put, and the mirror changes only by
\* becoming the state of a message taken.
C27_MirrorConverges ==
    /\ [](Quiescent => /\ webview.planState.steps = Serialize(planState, heap).steps
                       /\ webview.planState = Serialize(planState, heap))
    /\ [][ /\ \/ PageReceives
              \/ channel'.toWebview = channel.toWebview \o NewToWebview
           /\ \A i \in 1..Len(NewToWebview) :
                 NewToWebview[i].command = "stateUpdated" =>
                    NewToWebview[i].state = Serialize(planState', heap')
           /\ webview'.planState # webview.planState =>
                 /\ PageReceives
                 /\ Head(channel.toWebview).command = "stateUpdated"
                 /\ webview'.planState = Head(channel.toWebview).state ]_vars

\* C27 witness: a step was rejected from its card (two rejectStep messages,
\* one per listener), both refine calls have returned, the last one with an
\* answer; every message has been taken, and the mirror shows what
\* planState holds: the refined text, status edited.
C27_Witness ==
    /\ Quiescent
    /\ intents = 2
    /\ message.command = "refineStep"
    /\ message.outcome = "answer"
    /\ message.replaced = "edited"
    /\ planState.lastModified = 4
    /\ webview.planState.lastModified = 4
    /\ \E k \in 1..Len(webview.planState.steps) :
          /\ webview.planState.steps[k].id = message.id
          /\ webview.planState.steps[k].content = RefinedText
          /\ webview.planState.steps[k].status = "edited"
          /\ heap[message.id].content = RefinedText

\* The messages the page posts in this step (it posts in gestures only)
NewToExtension ==
    IF Len(channel'.toExtension) > Len(channel.toExtension)
    THEN SubSeq(channel'.toExtension, Len(channel.toExtension) + 1, Len(channel'.toExtension))
    ELSE <<>>

\* s holds the elements of t, each as often as t does
IsPermutation(s, t) ==
    /\ Len(s) = Len(t)
    /\ \A x \in Range(s) \cup Range(t) :
          Cardinality(Positions(s, { x })) = Cardinality(Positions(t, { x }))

\* What a drag of the card stepId and its drop on the card targetId post
DropPosts(stepId, targetId, upper) ==
    onDrop([ webview EXCEPT !.draggedItem = stepId ], targetId, stepId, upper).out

\* C30: every reorderSteps message the page posts lists the ids of the
\* mirror as it is at the gesture, each exactly once.  Whatever the page
\* shows, the move-up listener of the first card, the move-down listener of
\* the last card and the drop of a card on itself post nothing; every
\* other move-up, move-down and drop posts one reorderSteps message, and
\* that of a move-up or move-down lists the card one place further up or
\* down.
C30_ReorderIsPermutation ==
    /\ [][ webview'.gestures # webview.gestures =>
             \A i \in 1..Len(NewToExtension) :
                NewToExtension[i].command = "reorderSteps" =>
                   /\ IsPermutation(NewToExtension[i].newOrder,
                                    MirrorIds(webview.planState.steps))
                   /\ IsDuplicateFree(NewToExtension[i].newOrder)
                   /\ webview'.planState = webview.planState ]_vars
    /\ [](LET ids == CardIds(webview.cards)
              n == Len(webview.cards)
          IN /\ n > 0 =>
                   /\ onMoveUp(webview, ids[1]).out = <<>>
                   /\ onMoveDown(webview, ids[n]).out = <<>>
             /\ \A k \in 1..n, upper \in BOOLEAN : DropPosts(ids[k], ids[k], upper) = <<>>
             /\ \A k \in 2..n :
                   onMoveUp(webview, ids[k]).out =
                      << [ command |-> "reorderSteps",
                           newOrder |-> [ ids EXCEPT ![k - 1] = ids[k], ![k] = ids[k - 1] ] ] >>
             /\ \A k \in 1..(n - 1) :
                   onMoveDown(webview, ids[k]).out =
                      << [ command |-> "reorderSteps",
                           newOrder |-> [ ids EXCEPT ![k + 1] = ids[k], ![k] = ids[k + 1] ] ] >>
             /\ \A j, k \in 1..n, upper \in BOOLEAN :
                   j # k =>
                      /\ Len(DropPosts(ids[j], ids[k], upper)) = 1
                      /\ DropPosts(ids[j], ids[k], upper)[1].command = "reorderSteps"
                      /\ IsPermutation(DropPosts(ids[j], ids[k], upper)[1].newOrder, ids))

\* C30 witness: a step was added, the page has received the state, and the
\* first of the three cards was dropped on the lower half of the last: one
\* reorderSteps message, which lists the three ids with the first one last.
C30_Witness ==
    /\ Len(webview.planState.steps) = 3
    /\ webview.gestures = 2
    /\ channel.toExtension =
          << [ command |-> "reorderSteps",
               newOrder |-> << generateStepId(2), generateStepId(3), generateStepId(1) >> ] >>

\* C22: a click on Save in a card whose text was not touched since edit mode
\* was entered (the card still shows what was rendered from the step) posts
\* nothing to the extension, whatever the content of the step.
C22_SaveUnchangedSendsNothing ==
    [][ \A k \in Cards :
          (webview.cards[k].content.rendered /\ ClickSaveEdit(k))
              => NewToExtension = <<>> ]_vars

\* C23: a click on Cancel posts nothing to the extension, leaves the mirror
\* and planState as they are, and makes the card show the text that was kept
\* when edit mode was entered.
C23_CancelRestoresSnapshot ==
    [][ \A k \in Cards :
          ClickCancelEdit(k)
              => /\ NewToExtension = <<>>
                 /\ webview'.planState = webview.planState
                 /\ planState' = planState
                 /\ heap' = heap
                 /\ cleanHtmlForContenteditable(innerHTML(webview'.cards[k]))
                        = webview.cards[k].originalContent ]_vars

\* C31: whatever the page shows, the drop of a card d on the upper half of
\* another card t posts a list with d immediately before t, the drop on the
\* lower half a list with d immediately after t, and in both lists the
\* other steps are in the order they had, whether d was above or below t.
C31_DropLandsNextToTarget ==
    LET ids == CardIds(webview.cards)
        n == Len(webview.cards)
    IN \A j, k \in 1..n, upper \in BOOLEAN :
          j # k =>
             LET out == DropPosts(ids[j], ids[k], upper)
                 others == Range(ids) \ { ids[j] }
             IN /\ out # <<>>
                /\ \A i \in 1..Len(out) :
                      LET newOrder == out[i].newOrder
                          d == findIndex(newOrder, ids[j])
                          t == findIndex(newOrder, ids[k])
                      IN /\ d # 0
                         /\ t # 0
                         /\ upper => d + 1 = t
                         /\ ~upper => d = t + 1
                         /\ Restrict(newOrder, others) = Restrict(ids, others)

\* C32: a step leaves planState.steps only in the handling of a deleteStep
\* message that names it, however the gestures of the page and the
\* broadcasts of the extension interleave.
C32_OnlyDeleteRemoves ==
    [][ \A id \in Range(planState.steps) :
          id \notin Range(planState'.steps)
              => /\ message'.command = "deleteStep"
                 /\ message'.id = id ]_vars

====
